---- MODULE Spec2Model ----
(***************************************************************************)
(* A model of the storefront theme's custom elements.  Each component of   *)
(* the theme is an independent custom element with its own state, so the   *)
(* module holds one group of variables, one initial predicate and one      *)
(* specification per component:                                            *)
(*                                                                         *)
(*   SpecDisclosure   DisclosureCustom        (disclosure-custom.js)       *)
(*   SpecVariant      VariantPicker           (variant-picker.js)          *)
(*   SpecQuickAdd     QuickAddComponent       (quick-add.js)               *)
(*   SpecPaginated    PaginatedList           (paginated-list.js)          *)
(*   SpecPaginatedFair  the same, every request settling in the end        *)
(*   SpecZoom         DragZoomWrapper         (unnamed/part_004)           *)
(*   SpecLifecycle    connected/disconnected callbacks and the listeners   *)
(*                    they leave on document, window and mediaQueryLarge   *)
(*   SpecDrawer       HeaderDrawer            (header-drawer.js)           *)
(*   SpecGiftCard     GiftCardRecipientForm   (unnamed/part_002)           *)
(*                                                                         *)
(* The browser runs one task at a time and empties the microtask queue     *)
(* after each task: an action of this model is one task together with the  *)
(* promise continuations it makes runnable.                                *)
(***************************************************************************)
EXTENDS Integers, Sequences, FiniteSets, TLC

VARIABLES
  \* DisclosureCustom (one entry per element on the page)
  ariaExpanded,      \* trigger's aria-expanded attribute: "unset", "true", "false"
  inert,             \* content.inert
  ariaLabel,         \* trigger's aria-label: "initial", "open" (dataset.disclosureOpen), "close"
  toggleHistory      \* history: aria-expanded before each of the last two toggles, latest first

discVars == <<ariaExpanded, inert, ariaLabel, toggleHistory>>

VARIABLES
  \* VariantPicker
  vpConnected,       \* connectedCallback has run (the 'change' listener is registered)
  radios,            \* #radios: entry k holds the inputs of fieldset radios[k]
  checkedIndices,    \* #checkedIndices: a sequence of lists of input indices
  currentChecked,    \* dataset.currentChecked of input <<fieldset, index>>
  previousChecked,   \* dataset.previousChecked of input <<fieldset, index>>
  checked,           \* per fieldset, the index of the checked radio (-1: none)
  vpRequests,        \* the fetches issued by fetchUpdatedSection, by number
  vpIssued,          \* how many fetches were issued
  vpAbortController, \* the request #abortController belongs to (0: undefined)
  vpApplied,         \* history: <<request, vpIssued when its .then ran>> of each morph
  vpEvents,          \* history: requests whose response dispatched a VariantUpdateEvent
  selections         \* history: per fieldset, the last two selected indices, latest first

vpVars == <<vpConnected, radios, checkedIndices, currentChecked, previousChecked, checked,
            vpRequests, vpIssued, vpAbortController, vpApplied, vpEvents, selections>>

VARIABLES
  \* QuickAddComponent (one instance, inside its product card)
  qaConnected,       \* connectedCallback has run and disconnectedCallback has not
  qaAbortController, \* the request #abortController belongs to (0: null)
  qaRequests,        \* the fetches issued by fetchProductPage, by number
  qaIssued,          \* how many fetches were issued
  qaMicrotasks,      \* aborted requests whose rejection is yet to reach the catch block
  cachedContent,     \* #cachedContent: per URL the cached product grid ("none": no entry)
  modalContent,      \* the product grid shown in #quick-add-modal-content
  dialogOpen,        \* the quick-add dialog is shown
  clicks,            \* the handleClick calls, by number
  cardUrl            \* productPageUrl: the href of the card's link ("": none)

qaVars == <<qaConnected, qaAbortController, qaRequests, qaIssued, qaMicrotasks,
            cachedContent, modalContent, dialogOpen, clicks, cardUrl>>

VARIABLES
  \* PaginatedList
  plConnected,                 \* the element is connected
  observing,                   \* infinityScrollObserver observes the view-more elements
  grid,                        \* data-page of the card groups in refs.grid, in DOM order
  lastPage,                    \* grid.dataset.lastPage (0: the attribute is absent)
  pages,                       \* pages: per page number the filter epoch of its HTML (-1: no entry)
  plFetches,                   \* the getSectionHTML calls not settled yet, oldest first
  plIssued,                    \* how many getSectionHTML calls were made
  resolveNextPagePromise,      \* the waiting render #resolveNextPagePromise resumes (0: null)
  resolvePreviousPagePromise,  \* the waiting render #resolvePreviousPagePromise resumes (0: null)
  renders,                     \* the render calls that had to wait for a fetch, by number
  idleCallbacks,               \* requestIdleCallback callbacks not yet run, per direction
  filterEpoch,                 \* how many FilterUpdate events were handled
  domPending,                  \* the filtered grid has not replaced the old one yet
  observers                    \* the live MutationObservers: the data-last-page each one saw

plVars == <<plConnected, observing, grid, lastPage, pages, plFetches, plIssued,
            resolveNextPagePromise,
            resolvePreviousPagePromise, renders, idleCallbacks, filterEpoch, domPending,
            observers>>

VARIABLES
  \* DragZoomWrapper
  scale,                      \* #scale, in hundredths
  initialDistance,            \* #initialDistance, in px
  startScale,                 \* #startScale, in hundredths
  translate,                  \* #translate, in hundredths of a px
  startPosition,              \* #startPosition, in px
  startTranslate,             \* #startTranslate, in hundredths of a px
  isDragging,                 \* #isDragging
  initialized,                \* #initialized
  animationFrame,             \* #animationFrame holds a requested frame
  lastTapTime,                \* #lastTapTime, in ms
  lastTapPosition,            \* #lastTapPosition (NoPoint: null)
  hasDraggedBeyondThreshold,  \* #hasDraggedBeyondThreshold
  hasManualZoom,              \* #hasManualZoom
  style,                      \* the --drag-zoom-* custom properties
  zoomConnected,              \* the element is connected
  aborted,                    \* #controller.signal.aborted
  resizeObserving,            \* #resizeObserver observes the element
  closeOverrides,             \* how many times zoomDialog.close was wrapped
  hasImage,                   \* the wrapper holds an img
  naturalSize,                \* naturalWidth, naturalHeight of the img
  container,                  \* clientWidth, clientHeight of the wrapper
  now,                        \* performance.now(), in ms
  fingersDown,                \* the touches on the wrapper
  touchEvents,                \* how many touch events were handled
  lastClose                   \* history: the last close() and what followed it

zoomVars == <<scale, initialDistance, startScale, translate, startPosition, startTranslate,
              isDragging, initialized, animationFrame, lastTapTime, lastTapPosition,
              hasDraggedBeyondThreshold, hasManualZoom, style, zoomConnected, aborted,
              resizeObserving, closeOverrides, hasImage, naturalSize, container, now,
              fingersDown, touchEvents, lastClose>>

VARIABLES
  \* Listeners on targets that outlive the elements, and the components that
  \* add them
  listeners,          \* the registered <<owner, target, type>>
  desktop,            \* mediaQueryLarge matches
  pcConnected,        \* ProductCard: the element is connected
  pcHover,            \* ProductCard: pointerenter and focusin prefetch the product page
  gcConnected,        \* GiftCardRecipientForm: the element is connected
  gcBound,            \* GiftCardRecipientForm: the #...Bound fields hold callbacks
  apConnected,        \* AnchoredPopoverComponent: the element is connected
  apCloseOnResize,    \* AnchoredPopoverComponent: data-close-on-resize is set
  apToggleListener,  \* AnchoredPopoverComponent: the popover has the 'beforetoggle' listener
  apOpen              \* AnchoredPopoverComponent: the popover is shown

lifeRest == <<desktop, pcConnected, pcHover, gcConnected, gcBound, apConnected,
              apCloseOnResize, apToggleListener, apOpen>>

lifeVars == <<listeners, lifeRest>>

VARIABLES
  \* HeaderDrawer
  hdConnected,        \* the element is connected: the keyup listener is on it
  hdOpen,             \* details -> it has the open attribute
  hdMenuOpen,         \* details -> it has the class menu-open
  hdAriaExpanded,     \* details -> aria-expanded of its summary
  hdFrames,           \* the details whose open() waits for its animation frame
  hdClosing,          \* the details whose #close waits for the animations to end
  hdTrapTimeouts,     \* the details a setTimeout is to trap the focus in
  hdTrapFocus,        \* the details the focus is trapped in
  hdEscaped           \* the details the last step closed for an Escape keyup

hdVars == <<hdConnected, hdOpen, hdMenuOpen, hdAriaExpanded, hdFrames, hdClosing,
            hdTrapTimeouts, hdTrapFocus, hdEscaped>>

VARIABLES
  \* GiftCardRecipientForm
  currentMode,        \* #currentMode
  recipientForm,      \* the DOM of the form
  recipientEvents,    \* the 'recipient:toggle' events dispatched, oldest first
  toggleCalls,        \* the calls of toggleRecipientForm so far
  lastToggle          \* the last call of toggleRecipientForm: its argument, and whether it threw

giftVars == <<currentMode, recipientForm, recipientEvents, toggleCalls, lastToggle>>

vars == <<discVars, vpVars, qaVars, plVars, zoomVars, lifeVars, hdVars, giftVars>>

(***************************************************************************)
(* Bounds of the model.                                                    *)
(***************************************************************************)
NumDisclosures == 2
NumInputs == 2
MaxRequests == 2
MaxFetches == 3
MaxClicks == 2
MaxSectionFetches == 3
MaxRenders == 2
MaxTouchEvents == 3
MaxZoomConnects == 1
MaxToggleCalls == 3

(***************************************************************************)
(* Helpers shared by the components.                                       *)
(***************************************************************************)
\* String(b) of a JavaScript boolean.
BoolToString(b) == IF b THEN "true" ELSE "false"

\* The first n elements of a sequence (Array.length = Math.min(length, n)).
\* The sequence s without its k-th element.
Without(s, k) == SubSeq(s, 1, k - 1) \o SubSeq(s, k + 1, Len(s))

Take(s, n) == IF Len(s) <= n THEN s ELSE SubSeq(s, 1, n)

(***************************************************************************)
(* VariantPicker                                                           *)
(*                                                                         *)
(* Fieldsets and inputs carry the JavaScript (0-based) indices of          *)
(* data-fieldset-index and data-input-index; entry k of a JavaScript       *)
(* array is element k+1 of the sequence that models it.  Only radio        *)
(* inputs are modelled (the <select> branch keeps no index list), and the  *)
(* request URL is not: a request is known by its number.                   *)
(***************************************************************************)
\* Two option groups: the fewest among which the lists of #checkedIndices can be
\* told apart by group.
Fieldsets == {0, 1}
NumFieldsets == Cardinality(Fieldsets)
Inputs == 0..(NumInputs - 1)
RequestIds == 1..MaxRequests

\* Whether array[k] of a JavaScript array is defined.
Has(s, k) == k >= 0 /\ k < Len(s)

\* array[k] of a JavaScript array of indices: -1 stands for undefined.
At(s, k) == IF Has(s, k) THEN s[k + 1] ELSE -1

NoRequest == [status |-> "none", morphMain |-> FALSE]

\* The state after construction, for the markup in which input initial[f] of
\* fieldset f is rendered checked with data-current-checked="true" (-1: none).
VariantInitFor(initial) ==
  /\ vpConnected = FALSE
  /\ radios = <<>>
  /\ checkedIndices = <<>>
  /\ currentChecked = [f \in Fieldsets |-> [i \in Inputs |-> BoolToString(i = initial[f])]]
  /\ previousChecked = [f \in Fieldsets |-> [i \in Inputs |-> "false"]]
  /\ checked = initial
  /\ vpRequests = [r \in RequestIds |-> NoRequest]
  /\ vpIssued = 0
  /\ vpAbortController = 0
  /\ vpApplied = {}
  /\ vpEvents = {}
  /\ selections = [f \in Fieldsets |-> IF initial[f] = -1 THEN <<>> ELSE <<initial[f]>>]

VariantInit == \E initial \in [Fieldsets -> (Inputs \cup {-1})] : VariantInitFor(initial)

VariantRest == VariantInitFor([f \in Fieldsets |-> 0])

\* radios.findIndex((radio) => radio.dataset.currentChecked === 'true')
InitialCheckedIndex(f) ==
  IF \E i \in Inputs : currentChecked[f][i] = "true"
  THEN CHOOSE i \in Inputs :
         /\ currentChecked[f][i] = "true"
         /\ \A j \in Inputs : currentChecked[f][j] = "true" => i <= j
  ELSE -1

\* The fieldsets.forEach of connectedCallback, from fieldset f on: every fieldset
\* pushes its inputs to #radios, and a list to #checkedIndices only when one of
\* its inputs is current.
RECURSIVE CollectRadios(_, _)
CollectRadios(f, acc) ==
  IF f >= NumFieldsets THEN acc ELSE CollectRadios(f + 1, Append(acc, f))

RECURSIVE CollectCheckedIndices(_, _)
CollectCheckedIndices(f, acc) ==
  IF f >= NumFieldsets THEN acc
  ELSE CollectCheckedIndices(f + 1,
         IF InitialCheckedIndex(f) # -1 THEN Append(acc, <<InitialCheckedIndex(f)>>) ELSE acc)

\* connectedCallback
VariantConnect ==
  /\ ~vpConnected
  /\ vpConnected' = TRUE
  /\ radios' = CollectRadios(0, radios)
  /\ checkedIndices' = CollectCheckedIndices(0, checkedIndices)
  /\ UNCHANGED <<currentChecked, previousChecked, checked, vpRequests, vpIssued,
                 vpAbortController, vpApplied, vpEvents, selections>>

\* checkedIndices.length = Math.min(checkedIndices.length, 2)
KeepLastTwo(list) == Take(list, 2)

\* dataset writes of updateSelectedOption, in the order of the code; rf is the
\* fieldset whose inputs #radios[fieldsetIndex] holds.
SetData(data, rf, index, value) ==
  IF index \in Inputs THEN [data EXCEPT ![rf][index] = value] ELSE data

\* updateSelectedOption(target) for the radio input with data-fieldset-index f
\* and data-input-index i.
UpdateSelectedOption(f, i) ==
  LET tracked == Has(radios, f) /\ Has(checkedIndices, f)
      list == IF tracked THEN checkedIndices[f + 1] ELSE <<>>
      rf == At(radios, f)
      currentIndex == At(list, 0)
      previousIndex == At(list, 1)
      newList == KeepLastTwo(<<i>> \o list)
      newCurrentIndex == At(newList, 0)
      newPreviousIndex == At(newList, 1)
      prev1 == SetData(previousChecked, rf, currentIndex, "false")
      prev2 == SetData(prev1, rf, previousIndex, "false")
      cur1 == SetData(currentChecked, rf, newCurrentIndex, "true")
  IN
  /\ IF tracked
     THEN /\ checkedIndices' = [checkedIndices EXCEPT ![f + 1] = newList]
          /\ previousChecked' = SetData(prev2, rf, newPreviousIndex, "true")
          /\ currentChecked' = SetData(cur1, rf, newPreviousIndex, "false")
     ELSE UNCHANGED <<checkedIndices, previousChecked, currentChecked>>
  /\ checked' = [checked EXCEPT ![f] = i]
  /\ selections' = [selections EXCEPT ![f] = Take(<<i>> \o @, 2)]
  /\ UNCHANGED radios

\* Mutant: the previous request is left running.
AbortPreviousSkipped(requests) == requests

\* this.#abortController?.abort(): the pending fetch of the controller rejects
\* with an AbortError, which the .catch only logs.
AbortPrevious(requests) ==
  IF vpAbortController # 0 /\ requests[vpAbortController].status = "pending"
  THEN [requests EXCEPT ![vpAbortController].status = "aborted"]
  ELSE requests

\* fetchUpdatedSection(requestUrl, shouldMorphMain)
FetchUpdatedSection(shouldMorphMain) ==
  /\ vpIssued < MaxRequests
  /\ vpIssued' = vpIssued + 1
  /\ vpAbortController' = vpIssued + 1
  /\ vpRequests' = [AbortPrevious(vpRequests) EXCEPT
                      ![vpIssued + 1] = [status |-> "pending", morphMain |-> shouldMorphMain]]

\* variantChanged(event): a 'change' event of radio input <<f, i>>.
VariantChanged(f, i, loadsNewProduct) ==
  /\ vpConnected
  /\ UpdateSelectedOption(f, i)
  /\ FetchUpdatedSection(loadsNewProduct)
  /\ UNCHANGED <<vpConnected, vpApplied, vpEvents>>
  /\ UNCHANGED <<discVars, qaVars, plVars, zoomVars, lifeVars, hdVars, giftVars>>

\* updateSelectedOption called from outside (ProductCard.#handleVariantSelected).
VariantSelectedFromCard(f, i) ==
  /\ vpConnected
  /\ UpdateSelectedOption(f, i)
  /\ UNCHANGED <<vpConnected, vpRequests, vpIssued, vpAbortController, vpApplied, vpEvents>>
  /\ UNCHANGED <<discVars, qaVars, plVars, zoomVars, lifeVars, hdVars, giftVars>>

\* this.selectedOptionId: the first checked input in document order.
HasSelectedOption == \E f \in Fieldsets : checked[f] # -1

\* The two .then callbacks of request r: the response arrived and was read.
\* hasJson: the response holds the variant picker's JSON script.
VariantResponse(r, hasJson) ==
  /\ vpRequests[r].status = "pending"
  /\ IF ~hasJson
     THEN /\ vpRequests' = [vpRequests EXCEPT ![r].status = "ignored"]
          /\ UNCHANGED <<vpApplied, vpEvents>>
     ELSE /\ vpRequests' = [vpRequests EXCEPT ![r].status = "applied"]
          /\ vpApplied' = vpApplied \cup {<<r, vpIssued>>}
          /\ vpEvents' = IF ~vpRequests[r].morphMain /\ HasSelectedOption
                         THEN vpEvents \cup {r} ELSE vpEvents
  /\ UNCHANGED <<vpConnected, radios, checkedIndices, currentChecked, previousChecked,
                 checked, vpIssued, vpAbortController, selections>>
  /\ UNCHANGED <<discVars, qaVars, plVars, zoomVars, lifeVars, hdVars, giftVars>>

\* The fetch of request r fails (network error): the .catch logs the error.
VariantFetchError(r) ==
  /\ vpRequests[r].status = "pending"
  /\ vpRequests' = [vpRequests EXCEPT ![r].status = "failed"]
  /\ UNCHANGED <<vpConnected, radios, checkedIndices, currentChecked, previousChecked,
                 checked, vpIssued, vpAbortController, vpApplied, vpEvents, selections>>
  /\ UNCHANGED <<discVars, qaVars, plVars, zoomVars, lifeVars, hdVars, giftVars>>

NextVariant ==
  \/ VariantConnect /\ UNCHANGED <<discVars, qaVars, plVars, zoomVars, lifeVars, hdVars, giftVars>>
  \/ \E f \in Fieldsets, i \in Inputs, b \in BOOLEAN : VariantChanged(f, i, b)
  \/ \E f \in Fieldsets, i \in Inputs : VariantSelectedFromCard(f, i)
  \/ \E r \in RequestIds, hasJson \in BOOLEAN : VariantResponse(r, hasJson)
  \/ \E r \in RequestIds : VariantFetchError(r)

(***************************************************************************)
(* QuickAddComponent                                                       *)
(*                                                                         *)
(* A product grid is known by the URL it was fetched from.  fetchProductPage*)
(* is an async function: the part up to `await fetch` runs in the caller's *)
(* task; the rest runs when the fetch settles.  An abort rejects the       *)
(* pending fetch at once, and the catch and finally blocks of the aborted  *)
(* call run as a microtask right after the task that aborted it:           *)
(* qaMicrotasks holds them, and no other task starts while it is not empty.*)
(***************************************************************************)
Urls == {"u1", "u2"}
FetchIds == 1..MaxFetches
Clicks == 1..MaxClicks

NoFetch == [status |-> "none", url |-> "", caller |-> 0, fetchEnd |-> "none"]
NoClick == [pc |-> "idle", url |-> "", fetchEnd |-> "none", result |-> "none",
            stored |-> FALSE, opened |-> FALSE, shown |-> "none", mobile |-> FALSE]

QuickAddInitFor(url) ==
  /\ qaConnected = FALSE
  /\ qaAbortController = 0
  /\ qaRequests = [r \in FetchIds |-> NoFetch]
  /\ qaIssued = 0
  /\ qaMicrotasks = <<>>
  /\ cachedContent = [u \in Urls |-> "none"]
  /\ modalContent = "none"
  /\ dialogOpen = FALSE
  /\ clicks = [c \in Clicks |-> NoClick]
  /\ cardUrl = url

QuickAddInit == \E url \in Urls \cup {""} : QuickAddInitFor(url)

QuickAddRest == QuickAddInitFor("u1")

LifecycleInitFor(matches, closeOnResize) ==
  /\ listeners = {}
  /\ desktop = matches
  /\ pcConnected = FALSE
  /\ pcHover = FALSE
  /\ gcConnected = FALSE
  /\ gcBound = FALSE
  /\ apConnected = FALSE
  /\ apCloseOnResize = closeOnResize
  /\ apToggleListener = FALSE
  /\ apOpen = FALSE

LifecycleInit ==
  \E matches \in BOOLEAN, closeOnResize \in BOOLEAN : LifecycleInitFor(matches, closeOnResize)

LifecycleRest == LifecycleInitFor(TRUE, TRUE)

\* Mutant: the catch block swallows every error.
CatchResultSwallowAll(fetchEnd) == IF fetchEnd = "ok" THEN "html" ELSE "null"

\* The try/catch of fetchProductPage: what the call gives its caller when the
\* fetch ended as fetchEnd ("ok", "abort", "http": a non-OK status, "network").
CatchResult(fetchEnd) ==
  CASE fetchEnd = "ok" -> "html"
    [] fetchEnd = "abort" -> "null"
    [] OTHER -> "rejected"

\* this.#abortController?.abort()
QuickAddAbort(requests) ==
  IF qaAbortController # 0 /\ requests[qaAbortController].status = "pending"
  THEN [requests EXCEPT ![qaAbortController].status = "aborted"]
  ELSE requests

\* The microtasks an abort() leaves behind: the rejection of the aborted fetch.
AbortedNow(requests) ==
  IF qaAbortController # 0 /\ qaRequests[qaAbortController].status = "pending"
     /\ requests[qaAbortController].status = "aborted"
  THEN <<qaAbortController>> ELSE <<>>

\* fetchProductPage(productPageUrl) up to its `await fetch`, for a URL that is
\* not empty; caller is the handleClick call that awaits it (0: nobody does).
FetchProductPage(url, caller) ==
  /\ url # ""
  /\ qaIssued < MaxFetches
  /\ qaIssued' = qaIssued + 1
  /\ qaAbortController' = qaIssued + 1
  /\ qaMicrotasks' = qaMicrotasks \o AbortedNow(QuickAddAbort(qaRequests))
  /\ qaRequests' = [QuickAddAbort(qaRequests) EXCEPT ![qaIssued + 1] =
                      [status |-> "pending", url |-> url, caller |-> caller,
                       fetchEnd |-> "none"]]

\* html.querySelector('[data-product-grid-content]') of the page at `url`
GridOf(url) == url

\* The restructuring of updateQuickAddModal on the mobile breakpoint: a
\* product header, the variant picker and the form moved to the end of the
\* grid, the product details removed.
MobileLayout(productGrid) ==
  CASE productGrid = "u1" -> "u1-mobile"
    [] productGrid = "u2" -> "u2-mobile"
    [] OTHER -> productGrid

\* updateQuickAddModal(productGrid) when isMobileBreakpoint() answers
\* `mobile`: what productGrid has become when it is morphed into the modal
UpdateQuickAddModal(productGrid, mobile) ==
  IF mobile THEN MobileLayout(productGrid) ELSE productGrid

\* Mutant: updateQuickAddModal is handed the cached node itself.
CachedAfterUpdateShared(entry, updated) == updated

\* The cached node after updateQuickAddModal has worked on
\* productGrid.cloneNode(true)
CachedAfterUpdate(entry, updated) == entry

\* handleClick after `await this.fetchProductPage(currentUrl)` gave `result`;
\* hasGrid: the page holds a [data-product-grid-content] element.
ClickAfterFetch(c, fetchEnd, hasGrid, mobile) ==
  LET result == CatchResult(fetchEnd)
      url == clicks[c].url
      store == result = "html" /\ hasGrid
      updated == UpdateQuickAddModal(GridOf(url), mobile)
  IN
  /\ cachedContent' = IF store
                       THEN [cachedContent EXCEPT ![url] = CachedAfterUpdate(GridOf(url), updated)]
                       ELSE cachedContent
  /\ modalContent' = IF store THEN updated ELSE modalContent
  /\ dialogOpen' = IF result = "rejected" THEN dialogOpen ELSE TRUE
  /\ clicks' = [clicks EXCEPT ![c] =
                  [pc |-> IF result = "rejected" THEN "threw" ELSE "done", url |-> url,
                   fetchEnd |-> fetchEnd, result |-> result,
                   stored |-> store, opened |-> result # "rejected",
                   shown |-> IF store THEN updated ELSE "none",
                   mobile |-> store /\ mobile]]

QuickAddListener == <<"quick-add", "mediaQueryLarge", "change">>

\* connectedCallback
QuickAddConnect ==
  /\ ~qaConnected
  /\ qaMicrotasks = <<>>
  /\ qaConnected' = TRUE
  /\ listeners' = listeners \cup {QuickAddListener}
  /\ UNCHANGED <<qaAbortController, qaRequests, qaIssued, qaMicrotasks, cachedContent,
                 modalContent, dialogOpen, clicks, cardUrl>>
  /\ UNCHANGED <<discVars, vpVars, plVars, zoomVars, lifeRest, hdVars, giftVars>>

\* disconnectedCallback
QuickAddDisconnect ==
  /\ qaConnected
  /\ qaMicrotasks = <<>>
  /\ qaConnected' = FALSE
  /\ listeners' = listeners \ {QuickAddListener}
  /\ qaRequests' = QuickAddAbort(qaRequests)
  /\ qaMicrotasks' = AbortedNow(QuickAddAbort(qaRequests))
  /\ UNCHANGED <<qaAbortController, qaIssued, cachedContent, modalContent, dialogOpen,
                 clicks, cardUrl>>
  /\ UNCHANGED <<discVars, vpVars, plVars, zoomVars, lifeRest, hdVars, giftVars>>

\* handleClick(event), up to its first await that leaves the task;
\* isMobileBreakpoint() answers `mobile`.
HandleClick(c, mobile) ==
  /\ qaConnected
  /\ qaMicrotasks = <<>>
  /\ clicks[c].pc = "idle"
  /\ \A b \in Clicks : b < c => clicks[b].pc # "idle"
  /\ IF cardUrl # "" /\ cachedContent[cardUrl] # "none"
     THEN \* a cached grid: a fresh clone is morphed into the modal
          /\ modalContent' = UpdateQuickAddModal(cachedContent[cardUrl], mobile)
          /\ cachedContent' =
               [cachedContent EXCEPT ![cardUrl] =
                  CachedAfterUpdate(@, UpdateQuickAddModal(@, mobile))]
          /\ dialogOpen' = TRUE
          /\ clicks' = [clicks EXCEPT ![c] = [pc |-> "done", url |-> cardUrl,
                          fetchEnd |-> "none", result |-> "cached",
                          stored |-> FALSE, opened |-> TRUE,
                          shown |-> UpdateQuickAddModal(cachedContent[cardUrl], mobile),
                          mobile |-> mobile]]
          /\ UNCHANGED <<qaAbortController, qaRequests, qaIssued, qaMicrotasks>>
     ELSE IF cardUrl = ""
     THEN \* fetchProductPage('') returns null
          /\ ~mobile
          /\ dialogOpen' = TRUE
          /\ clicks' = [clicks EXCEPT ![c] = [pc |-> "done", url |-> cardUrl,
                          fetchEnd |-> "none", result |-> "null",
                          stored |-> FALSE, opened |-> TRUE,
                          shown |-> "none", mobile |-> FALSE]]
          /\ UNCHANGED <<qaAbortController, qaRequests, qaIssued, qaMicrotasks, modalContent,
                         cachedContent>>
     ELSE /\ ~mobile
          /\ FetchProductPage(cardUrl, c)
          /\ clicks' = [clicks EXCEPT ![c].pc = "fetching", ![c].url = cardUrl]
          /\ UNCHANGED <<modalContent, dialogOpen, cachedContent>>
  /\ UNCHANGED <<qaConnected, cardUrl>>
  /\ UNCHANGED <<discVars, vpVars, plVars, zoomVars, lifeVars, hdVars, giftVars>>

\* ProductCard.#fetchProductPageHandler: pointerenter or focusin on the card.
CardPrefetch ==
  /\ qaConnected
  /\ qaMicrotasks = <<>>
  /\ FetchProductPage(cardUrl, 0)
  /\ UNCHANGED <<qaConnected, cachedContent, modalContent, dialogOpen, clicks, cardUrl>>
  /\ UNCHANGED <<discVars, vpVars, plVars, zoomVars, lifeVars, hdVars, giftVars>>

\* ProductCard.#handleVariantUpdate: the card's link gets the URL of the
\* variant (or keeps its own), then the quick add fetches that page.
CardVariantUpdate(url) ==
  /\ qaConnected
  /\ qaMicrotasks = <<>>
  /\ cardUrl' = url
  /\ FetchProductPage(url, 0)
  /\ UNCHANGED <<qaConnected, cachedContent, modalContent, dialogOpen, clicks>>
  /\ UNCHANGED <<discVars, vpVars, plVars, zoomVars, lifeVars, hdVars, giftVars>>

\* The rest of fetchProductPage for the aborted request at the head of the
\* microtask queue: catch (AbortError: return null), finally, and the caller.
AbortContinuation ==
  /\ qaMicrotasks # <<>>
  /\ LET r == Head(qaMicrotasks)
         c == qaRequests[r].caller
     IN
     /\ qaMicrotasks' = Tail(qaMicrotasks)
     /\ qaRequests' = [qaRequests EXCEPT ![r].status = CatchResult("abort"),
                                         ![r].fetchEnd = "abort"]
     /\ qaAbortController' = 0
     /\ IF c # 0
        THEN ClickAfterFetch(c, "abort", FALSE, FALSE)
        ELSE UNCHANGED <<cachedContent, modalContent, dialogOpen, clicks>>
  /\ UNCHANGED <<qaConnected, qaIssued, cardUrl>>
  /\ UNCHANGED <<discVars, vpVars, plVars, zoomVars, lifeVars, hdVars, giftVars>>

\* The fetch of request r settles without an abort: the rest of
\* fetchProductPage (try, catch, finally) and of the handleClick awaiting it.
FetchSettles(r, fetchEnd, hasGrid, mobile) ==
  /\ qaMicrotasks = <<>>
  /\ qaRequests[r].status = "pending"
  /\ fetchEnd \in {"ok", "http", "network"}
  /\ fetchEnd # "ok" => ~hasGrid
  /\ (qaRequests[r].caller = 0 \/ ~hasGrid) => ~mobile
  /\ qaRequests' = [qaRequests EXCEPT ![r].status = CatchResult(fetchEnd),
                                      ![r].fetchEnd = fetchEnd]
  /\ qaAbortController' = 0
  /\ IF qaRequests[r].caller # 0
     THEN ClickAfterFetch(qaRequests[r].caller, fetchEnd, hasGrid, mobile)
     ELSE UNCHANGED <<cachedContent, modalContent, dialogOpen, clicks>>
  /\ UNCHANGED <<qaConnected, qaIssued, qaMicrotasks, cardUrl>>
  /\ UNCHANGED <<discVars, vpVars, plVars, zoomVars, lifeVars, hdVars, giftVars>>

\* #closeQuickAddModal, on a 'change' of mediaQueryLarge; the user closing the
\* dialog has the same effect on this component.
CloseQuickAddModal ==
  /\ qaMicrotasks = <<>>
  /\ dialogOpen
  /\ dialogOpen' = FALSE
  /\ UNCHANGED <<qaConnected, qaAbortController, qaRequests, qaIssued, qaMicrotasks,
                 cachedContent, modalContent, clicks, cardUrl>>
  /\ UNCHANGED <<discVars, vpVars, plVars, zoomVars, lifeVars, hdVars, giftVars>>

NextQuickAdd ==
  \/ QuickAddConnect
  \/ QuickAddDisconnect
  \/ \E c \in Clicks, mobile \in BOOLEAN : HandleClick(c, mobile)
  \/ CardPrefetch
  \/ \E url \in Urls : CardVariantUpdate(url)
  \/ AbortContinuation
  \/ \E r \in FetchIds, fetchEnd \in {"ok", "http", "network"}, hasGrid \in BOOLEAN,
          mobile \in BOOLEAN :
       FetchSettles(r, fetchEnd, hasGrid, mobile)
  \/ CloseQuickAddModal

(***************************************************************************)
(* PaginatedList                                                           *)
(*                                                                         *)
(* The cards of one page are one entry of `grid`, the page's number.  The  *)
(* HTML of a page is known by the filter epoch in which its fetch was      *)
(* issued.  A handler is a composition of the methods it calls, so the     *)
(* methods are operators from a state record to a state record; `resumed`  *)
(* holds the renders whose promise was resolved during the task: they run  *)
(* on as microtasks when the task's own code has returned.                 *)
(***************************************************************************)
PageNumbers == {1, 2, 3}
MaxPage == Cardinality(PageNumbers)
Directions == {"next", "previous"}

\* The filter updates the customer makes.
FilterUpdates == {1}
MaxFilterUpdates == Cardinality(FilterUpdates)

PaginatedState ==
  [grid |-> grid, lastPage |-> lastPage, pages |-> pages, plFetches |-> plFetches,
   plIssued |-> plIssued,
   resolveNextPagePromise |-> resolveNextPagePromise,
   resolvePreviousPagePromise |-> resolvePreviousPagePromise,
   renders |-> renders, idleCallbacks |-> idleCallbacks, filterEpoch |-> filterEpoch,
   resumed |-> <<>>]

PaginatedAssign(s) ==
  /\ grid' = s.grid
  /\ lastPage' = s.lastPage
  /\ pages' = s.pages
  /\ plFetches' = s.plFetches
  /\ plIssued' = s.plIssued
  /\ resolveNextPagePromise' = s.resolveNextPagePromise
  /\ resolvePreviousPagePromise' = s.resolvePreviousPagePromise
  /\ renders' = s.renders
  /\ idleCallbacks' = s.idleCallbacks
  /\ filterEpoch' = s.filterEpoch

\* The bounds on the calls the model follows.
PaginatedWithinBounds(s) ==
  /\ s.plIssued <= MaxSectionFetches
  /\ Len(s.renders) <= MaxRenders

PaginatedInitFor(cards, last) ==
  /\ plConnected = FALSE
  /\ observing = FALSE
  /\ grid = cards
  /\ lastPage = last
  /\ pages = [p \in PageNumbers |-> -1]
  /\ plFetches = <<>>
  /\ plIssued = 0
  /\ resolveNextPagePromise = 0
  /\ resolvePreviousPagePromise = 0
  /\ renders = <<>>
  /\ idleCallbacks = [d \in Directions |-> 0]
  /\ filterEpoch = 0
  /\ domPending = FALSE
  /\ observers = <<>>

\* The server renders one page of cards, or none, and the number of the last
\* page when there is more than one.
PaginatedInit ==
  \E last \in 0..MaxPage, cards \in {<<>>} \cup {<<p>> : p \in PageNumbers} :
    /\ (cards # <<>> /\ last # 0) => cards[1] <= last
    /\ PaginatedInitFor(cards, last)

PaginatedRest == PaginatedInitFor(<<1>>, 1)

\* Mutant: the page of the target card itself.
GetPageOfCard(s, type) ==
  IF s.grid = <<>> THEN -1
  ELSE IF type = "previous" THEN s.grid[1] ELSE s.grid[Len(s.grid)]

\* #getPage(type).page: the page before the first card or after the last one
\* (-1: there is no card).
GetPage(s, type) ==
  IF s.grid = <<>> THEN -1
  ELSE IF type = "previous" THEN s.grid[1] - 1 ELSE s.grid[Len(s.grid)] + 1

\* Mutant: the page is not compared with data-last-page.
ShouldUsePageNoLast(s, page) ==
  /\ page # -1
  /\ s.lastPage # 0
  /\ page >= 1

\* #shouldUsePage(pageInfo)
ShouldUsePage(s, page) ==
  /\ page # -1
  /\ s.lastPage # 0
  /\ page >= 1
  /\ page <= s.lastPage

\* #getGridForPage(page) finds cards
HasGridForPage(s, page) == page \in PageNumbers /\ s.pages[page] # -1

\* resolvePromise() of #fetchPage: the render stored as resolver of the
\* direction is resumed, and the resolver is forgotten.
ResolvePromise(s, type) ==
  IF type = "next"
  THEN [s EXCEPT !.resumed = IF s.resolveNextPagePromise # 0
                             THEN Append(@, s.resolveNextPagePromise) ELSE @,
                 !.resolveNextPagePromise = 0]
  ELSE [s EXCEPT !.resumed = IF s.resolvePreviousPagePromise # 0
                             THEN Append(@, s.resolvePreviousPagePromise) ELSE @,
                 !.resolvePreviousPagePromise = 0]

\* #fetchSpecificPage(pageNumber, url) up to `await getSectionHTML`
FetchSpecificPage(s, page, type) ==
  IF ~ShouldUsePage(s, page) THEN s
  ELSE [s EXCEPT !.plFetches = Append(@, [page |-> page, type |-> type,
                                          epoch |-> s.filterEpoch]),
                 !.plIssued = @ + 1]

\* #fetchPage(type) up to `await this.#fetchSpecificPage`
FetchPage(s, type) ==
  LET page == GetPage(s, type) IN
  IF ~ShouldUsePage(s, page) THEN ResolvePromise(s, type)
  ELSE FetchSpecificPage(s, page, type)

\* grid.append(...) / grid.prepend(...) of the cards of `page`, and the
\* requestIdleCallback that follows.
AddToGrid(s, type, page) ==
  [s EXCEPT !.grid = IF type = "next" THEN Append(@, page) ELSE <<page>> \o @,
            !.idleCallbacks[type] = @ + 1]

\* #renderNextPage / #renderPreviousPage up to `await promise`
RenderPage(s, type) ==
  LET page == GetPage(s, type) IN
  IF ~ShouldUsePage(s, page) THEN s
  ELSE IF HasGridForPage(s, page) THEN AddToGrid(s, type, page)
  ELSE LET rid == Len(s.renders) + 1
           waiting == [s EXCEPT !.renders = Append(@, [pc |-> "waiting", type |-> type,
                                                       page |-> page])]
           stored == IF type = "next"
                     THEN [waiting EXCEPT !.resolveNextPagePromise = rid]
                     ELSE [waiting EXCEPT !.resolvePreviousPagePromise = rid]
       IN FetchPage(stored, type)

\* #renderNextPage / #renderPreviousPage after `await promise`, for render rid
ResumeRender(s, rid) ==
  LET r == s.renders[rid] IN
  IF HasGridForPage(s, r.page)
  THEN [AddToGrid(s, r.type, r.page) EXCEPT !.renders[rid].pc = "rendered"]
  ELSE [s EXCEPT !.renders[rid].pc = "returned"]

\* The microtasks of a task: the resumed renders run on, in the order in which
\* their promises were resolved.
RECURSIVE RunMicrotasks(_)
RunMicrotasks(s) ==
  IF s.resumed = <<>> THEN s
  ELSE RunMicrotasks(ResumeRender([s EXCEPT !.resumed = Tail(@)], Head(s.resumed)))

\* Mutant: connectedCallback fetches each direction twice.
ConnectFetchesTwice == <<"next", "previous", "next", "previous">>

\* The #fetchPage calls of connectedCallback, in order.
ConnectFetches == <<"next", "previous">>

RECURSIVE FetchPages(_, _)
FetchPages(s, types) ==
  IF types = <<>> THEN s ELSE FetchPages(FetchPage(s, Head(types)), Tail(types))

PaginatedListener == <<"paginated-list", "document", "FilterUpdate">>

\* connectedCallback
PaginatedConnect ==
  LET s == RunMicrotasks(FetchPages(PaginatedState, ConnectFetches)) IN
  /\ ~plConnected
  /\ PaginatedWithinBounds(s)
  /\ plConnected' = TRUE
  /\ observing' = TRUE
  /\ listeners' = listeners \cup {PaginatedListener}
  /\ PaginatedAssign(s)
  /\ UNCHANGED <<domPending, observers>>
  /\ UNCHANGED <<discVars, vpVars, qaVars, zoomVars, lifeRest, hdVars, giftVars>>

\* disconnectedCallback
PaginatedDisconnect ==
  /\ plConnected
  /\ plConnected' = FALSE
  /\ observing' = FALSE
  /\ listeners' = listeners \ {PaginatedListener}
  /\ UNCHANGED <<grid, lastPage, pages, plFetches, plIssued, resolveNextPagePromise,
                 resolvePreviousPagePromise, renders, idleCallbacks, filterEpoch,
                 domPending, observers>>
  /\ UNCHANGED <<discVars, vpVars, qaVars, zoomVars, lifeRest, hdVars, giftVars>>

\* The IntersectionObserver callback for one intersecting view-more element.
Intersect(type) ==
  LET s == RunMicrotasks(RenderPage(PaginatedState, type)) IN
  /\ observing
  /\ PaginatedWithinBounds(s)
  /\ s # PaginatedState
  /\ PaginatedAssign(s)
  /\ UNCHANGED <<plConnected, observing, domPending, observers>>
  /\ UNCHANGED <<discVars, vpVars, qaVars, zoomVars, lifeVars, hdVars, giftVars>>

\* A requestIdleCallback callback of a render: #fetchPage(type)
IdlePrefetch(type) ==
  LET taken == [PaginatedState EXCEPT !.idleCallbacks[type] = @ - 1]
      s == RunMicrotasks(FetchPage(taken, type))
  IN
  /\ idleCallbacks[type] > 0
  /\ PaginatedWithinBounds(s)
  /\ PaginatedAssign(s)
  /\ UNCHANGED <<plConnected, observing, domPending, observers>>
  /\ UNCHANGED <<discVars, vpVars, qaVars, zoomVars, lifeVars, hdVars, giftVars>>

\* getSectionHTML of fetch f resolves: the rest of #fetchSpecificPage
\* (pages.set) and of #fetchPage (resolvePromise).
FetchCompletes(f) ==
  LET req == plFetches[f]
      stored == [PaginatedState EXCEPT !.pages[req.page] = req.epoch,
                                       !.plFetches = Without(@, f)]
      s == RunMicrotasks(ResolvePromise(stored, req.type))
  IN
  /\ f \in 1..Len(plFetches)
  /\ PaginatedAssign(s)
  /\ UNCHANGED <<plConnected, observing, domPending, observers>>
  /\ UNCHANGED <<discVars, vpVars, qaVars, zoomVars, lifeVars, hdVars, giftVars>>

\* getSectionHTML of fetch f rejects: #fetchSpecificPage and #fetchPage reject
\* with it, and resolvePromise is not reached.
FetchFails(f) ==
  /\ f \in 1..Len(plFetches)
  /\ plFetches' = Without(plFetches, f)
  /\ UNCHANGED <<plConnected, observing, grid, lastPage, pages, plIssued,
                 resolveNextPagePromise,
                 resolvePreviousPagePromise, renders, idleCallbacks, filterEpoch,
                 domPending, observers>>
  /\ UNCHANGED <<discVars, vpVars, qaVars, zoomVars, lifeVars, hdVars, giftVars>>

\* this.pages.clear()
ClearPages(s) == [s EXCEPT !.pages = [p \in PageNumbers |-> -1]]

\* #handleFilterUpdate
HandleFilterUpdate ==
  LET cleared == ClearPages(PaginatedState)
      resolved == ResolvePromise(ResolvePromise(cleared, "next"), "previous")
      s == RunMicrotasks([resolved EXCEPT !.filterEpoch = @ + 1])
  IN
  /\ PaginatedListener \in listeners
  /\ filterEpoch < MaxFilterUpdates
  /\ PaginatedAssign(s)
  /\ observers' = Append(observers, lastPage)
  /\ domPending' = TRUE
  /\ UNCHANGED <<plConnected, observing>>
  /\ UNCHANGED <<discVars, vpVars, qaVars, zoomVars, lifeVars, hdVars, giftVars>>

\* The observers that stay after a mutation that left data-last-page at `last`.
RECURSIVE RemainingObservers(_, _)
RemainingObservers(obs, last) ==
  IF obs = <<>> THEN <<>>
  ELSE IF Head(obs) # last THEN RemainingObservers(Tail(obs), last)
  ELSE <<Head(obs)>> \o RemainingObservers(Tail(obs), last)

\* The #fetchPage('next') calls of the MutationObserver callbacks that see a
\* new data-last-page.
RECURSIVE ObserverFetches(_, _)
ObserverFetches(obs, last) ==
  IF obs = <<>> THEN <<>>
  ELSE (IF Head(obs) # last THEN <<"next">> ELSE <<>>) \o ObserverFetches(Tail(obs), last)

\* The filtered section replaces the grid (done by the facets component, not by
\* this one): the first page of the filtered list or no card at all, a new
\* data-last-page, and the MutationObserver callbacks of #handleFilterUpdate.
GridReplaced(cards, last) ==
  LET replaced == [PaginatedState EXCEPT !.grid = cards, !.lastPage = last]
      fetches == IF plConnected THEN ObserverFetches(observers, last) ELSE <<>>
      s == RunMicrotasks(FetchPages(replaced, fetches))
  IN
  /\ domPending
  /\ (cards # <<>> /\ last # 0) => cards[1] <= last
  /\ PaginatedWithinBounds(s)
  /\ PaginatedAssign(s)
  /\ domPending' = FALSE
  /\ observers' = RemainingObservers(observers, last)
  /\ observing' = IF plConnected /\ fetches # <<>> THEN TRUE ELSE observing
  /\ UNCHANGED <<plConnected>>
  /\ UNCHANGED <<discVars, vpVars, qaVars, zoomVars, lifeVars, hdVars, giftVars>>

\* The 3 s timeout of #handleFilterUpdate disconnects its observer.
ObserverTimeout ==
  /\ observers # <<>>
  /\ observers' = Tail(observers)
  /\ UNCHANGED <<plConnected, observing, grid, lastPage, pages, plFetches, plIssued,
                 resolveNextPagePromise, resolvePreviousPagePromise, renders,
                 idleCallbacks, filterEpoch, domPending>>
  /\ UNCHANGED <<discVars, vpVars, qaVars, zoomVars, lifeVars, hdVars, giftVars>>

NextPaginated ==
  \/ PaginatedConnect
  \/ PaginatedDisconnect
  \/ \E type \in Directions : Intersect(type)
  \/ \E type \in Directions : IdlePrefetch(type)
  \/ \E f \in 1..MaxSectionFetches : FetchCompletes(f)
  \/ \E f \in 1..MaxSectionFetches : FetchFails(f)
  \/ HandleFilterUpdate
  \/ \E last \in 0..MaxPage, cards \in {<<>>, <<1>>} : GridReplaced(cards, last)
  \/ ObserverTimeout

(***************************************************************************)
(* DragZoomWrapper                                                         *)
(*                                                                         *)
(* Numbers are fixed-point: a scale is kept in hundredths, a translation   *)
(* in hundredths of a px, and a quotient is rounded down to that unit.     *)
(* Touch points are taken from a grid on which every distance is a whole   *)
(* number of px.                                                           *)
(***************************************************************************)
ScaleUnit == 100
MIN_ZOOM == 1 * ScaleUnit
MAX_ZOOM == 5 * ScaleUnit
DEFAULT_ZOOM == (3 * ScaleUnit) \div 2
DOUBLE_TAP_DELAY == 300
DOUBLE_TAP_DISTANCE == 50
DRAG_THRESHOLD == 10

\* const tolerance = 0.05
Tolerance == ScaleUnit \div 20

\* The time between two readings of performance.now() that differ, in ms, and
\* the readings.
TimeStep == DOUBLE_TAP_DELAY
Times == {0, TimeStep}

NoPoint == <<-1, -1>>
Origin == [x |-> 0, y |-> 0]

\* Where a finger can be: the centre of the wrapper and two more points.
TouchPoints == {<<100, 100>>, <<160, 100>>, <<160, 180>>}
TouchPairs == {<<<<100, 100>>, <<160, 100>>>>, <<<<100, 100>>, <<160, 180>>>>,
               <<<<160, 100>>, <<160, 180>>>>}

\* clientWidth and clientHeight: laid out, or hidden with the dialog.
Containers == {<<200, 200>>, <<0, 0>>}

\* naturalWidth and naturalHeight: not loaded, or a wide image.
NaturalSizes == {<<0, 0>>, <<400, 200>>}

Abs(n) == IF n < 0 THEN -n ELSE n
Min2(a, b) == IF a < b THEN a ELSE b
Max2(a, b) == IF a > b THEN a ELSE b

\* Math.sqrt on a square
Sqrt(n) == CHOOSE r \in 0..n : r * r <= n /\ (r + 1) * (r + 1) > n

\* clamp(value, min, max) of @theme/utilities
Clamp(value, min, max) == Min2(Max2(value, min), max)

\* getDistance(point1, point2), in px
GetDistance(point1, point2) ==
  LET dx == point1[1] - point2[1]
      dy == point1[2] - point2[2]
  IN Sqrt(dx * dx + dy * dy)

ZoomState ==
  [scale |-> scale, initialDistance |-> initialDistance, startScale |-> startScale,
   translate |-> translate, startPosition |-> startPosition,
   startTranslate |-> startTranslate, isDragging |-> isDragging,
   initialized |-> initialized, animationFrame |-> animationFrame,
   lastTapTime |-> lastTapTime, lastTapPosition |-> lastTapPosition,
   hasDraggedBeyondThreshold |-> hasDraggedBeyondThreshold,
   hasManualZoom |-> hasManualZoom, style |-> style, container |-> container]

ZoomAssign(z) ==
  /\ scale' = z.scale
  /\ initialDistance' = z.initialDistance
  /\ startScale' = z.startScale
  /\ translate' = z.translate
  /\ startPosition' = z.startPosition
  /\ startTranslate' = z.startTranslate
  /\ isDragging' = z.isDragging
  /\ initialized' = z.initialized
  /\ animationFrame' = z.animationFrame
  /\ lastTapTime' = z.lastTapTime
  /\ lastTapPosition' = z.lastTapPosition
  /\ hasDraggedBeyondThreshold' = z.hasDraggedBeyondThreshold
  /\ hasManualZoom' = z.hasManualZoom
  /\ style' = z.style
  /\ container' = z.container

\* What close() is to reset: scale, translation, dragging, last tap.
Snapshot(z) == <<z.scale, z.translate, z.isDragging, z.lastTapTime, z.lastTapPosition>>

\* The snapshot of a wrapper that was reset.
ResetSnapshot == <<DEFAULT_ZOOM, Origin, FALSE, 0, NoPoint>>

\* The places in which a snapshot differs from that of a wrapper that was reset.
Dirty(snapshot) == {i \in 1..5 : snapshot[i] # ResetSnapshot[i]}

NoClose == [fresh |-> FALSE, before |-> {}, seen |-> <<>>, frames |-> 0]

ZoomInitFor(image, natural) ==
  /\ scale = DEFAULT_ZOOM
  /\ initialDistance = 0
  /\ startScale = DEFAULT_ZOOM
  /\ translate = Origin
  /\ startPosition = <<0, 0>>
  /\ startTranslate = Origin
  /\ isDragging = FALSE
  /\ initialized = FALSE
  /\ animationFrame = FALSE
  /\ lastTapTime = 0
  /\ lastTapPosition = NoPoint
  /\ hasDraggedBeyondThreshold = FALSE
  /\ hasManualZoom = FALSE
  /\ style = [scale |-> DEFAULT_ZOOM, x |-> 0, y |-> 0]
  /\ zoomConnected = FALSE
  /\ aborted = FALSE
  /\ resizeObserving = FALSE
  /\ closeOverrides = 0
  /\ hasImage = image
  /\ naturalSize = natural
  /\ container = <<200, 200>>
  /\ now = 0
  /\ fingersDown = 0
  /\ touchEvents = 0
  /\ lastClose = NoClose

ZoomInit ==
  \E image \in BOOLEAN, natural \in NaturalSizes :
    /\ ~image => natural = <<0, 0>>
    /\ ZoomInitFor(image, natural)

ZoomRest == ZoomInitFor(TRUE, <<0, 0>>)

\* #constrainTranslation
ConstrainTranslation(z) ==
  LET containerWidth == z.container[1]
      containerHeight == z.container[2]
      clamped == Clamp(z.scale, MIN_ZOOM, MAX_ZOOM)
      natural == IF naturalSize[1] > 0 /\ naturalSize[2] > 0
                 THEN naturalSize ELSE <<containerWidth, containerWidth>>
      wider == natural[1] * containerHeight > containerWidth * natural[2]
      \* in hundredths of a px
      actualImageWidth ==
        IF wider THEN containerWidth * 100
        ELSE (containerHeight * natural[1] * 100) \div natural[2]
      actualImageHeight ==
        IF wider THEN (containerWidth * natural[2] * 100) \div natural[1]
        ELSE containerHeight * 100
      scaledImageWidth == (actualImageWidth * clamped) \div ScaleUnit
      scaledImageHeight == (actualImageHeight * clamped) \div ScaleUnit
      horizontalOverflow == Max2(0, scaledImageWidth - containerWidth * 100)
      verticalOverflow == Max2(0, scaledImageHeight - containerHeight * 100)
      maxTranslateX == (horizontalOverflow * ScaleUnit) \div (2 * clamped)
      maxTranslateY == (verticalOverflow * ScaleUnit) \div (2 * clamped)
      constrained == [x |-> Clamp(z.translate.x, -maxTranslateX, maxTranslateX),
                      y |-> Clamp(z.translate.y, -maxTranslateY, maxTranslateY)]
  IN
  IF containerWidth = 0 \/ containerHeight = 0 \/ ~hasImage THEN z
  ELSE IF clamped <= MIN_ZOOM THEN [z EXCEPT !.scale = clamped, !.translate = Origin]
  ELSE [z EXCEPT !.scale = clamped,
                 !.translate = constrained,
                 !.style = [scale |-> clamped, x |-> constrained.x, y |-> constrained.y]]

\* #updateTransform
UpdateTransform(z) ==
  LET c == ConstrainTranslation([z EXCEPT !.animationFrame = FALSE]) IN
  [c EXCEPT !.style = [scale |-> c.scale, x |-> c.translate.x, y |-> c.translate.y]]

\* #requestUpdateTransform
RequestUpdateTransform(z) == [z EXCEPT !.animationFrame = TRUE]

\* #initEventListeners
InitEventListeners(z) ==
  IF z.initialized THEN z ELSE UpdateTransform([z EXCEPT !.initialized = TRUE])

\* Mutant: the translation and the dragging flag survive the reset.
ResetZoomScaleOnly(z) ==
  [z EXCEPT !.scale = DEFAULT_ZOOM,
            !.startScale = DEFAULT_ZOOM,
            !.style = [scale |-> DEFAULT_ZOOM, x |-> 0, y |-> 0]]

\* #resetZoom
ResetZoom(z) ==
  [z EXCEPT !.scale = DEFAULT_ZOOM,
            !.startScale = DEFAULT_ZOOM,
            !.translate = Origin,
            !.startPosition = <<0, 0>>,
            !.startTranslate = Origin,
            !.isDragging = FALSE,
            !.lastTapTime = 0,
            !.lastTapPosition = NoPoint,
            !.hasDraggedBeyondThreshold = FALSE,
            !.style = [scale |-> DEFAULT_ZOOM, x |-> 0, y |-> 0]]

\* The translation that keeps `point` where it is when the scale goes from
\* oldScale to z.scale: translate -= (distanceFromCenter * scaleDelta) / scale
ZoomAround(z, point, oldScale) ==
  LET distanceFromCenterX == point[1] - z.container[1] \div 2
      distanceFromCenterY == point[2] - z.container[2] \div 2
      shift(distance) ==
        (distance * (z.scale - oldScale) * ScaleUnit * 100) \div (oldScale * z.scale)
  IN [z EXCEPT !.translate = [x |-> @.x - shift(distanceFromCenterX),
                              y |-> @.y - shift(distanceFromCenterY)]]

\* #startZoomGestureFromTouches
StartZoomGestureFromTouches(z, touch1, touch2) ==
  [z EXCEPT !.initialDistance = GetDistance(touch1, touch2),
            !.startScale = z.scale,
            !.isDragging = FALSE]

\* #storeTapInfo, then #startDragGestureFromTouch
StoreTapAndStartDrag(z, currentTime, touch) ==
  [z EXCEPT !.lastTapTime = currentTime,
            !.lastTapPosition = touch,
            !.startPosition = touch,
            !.startTranslate = z.translate,
            !.isDragging = TRUE,
            !.hasDraggedBeyondThreshold = FALSE]

\* #handleDoubleTapFromTouch
HandleDoubleTapFromTouch(z, touch) ==
  LET targetZoom == IF z.hasManualZoom THEN MIN_ZOOM
                    ELSE IF Abs(z.scale - MIN_ZOOM) < Tolerance THEN DEFAULT_ZOOM
                    ELSE MIN_ZOOM
      manual == IF z.hasManualZoom
                THEN [z EXCEPT !.hasManualZoom = FALSE, !.translate = Origin]
                ELSE z
      zoomed == IF targetZoom # MIN_ZOOM
                THEN ZoomAround([manual EXCEPT !.scale = Min2(MAX_ZOOM, targetZoom)],
                                touch, manual.scale)
                ELSE [manual EXCEPT !.scale = targetZoom, !.translate = Origin]
  IN RequestUpdateTransform(zoomed)

\* #handleTouchStart with event.touches = touches, at time currentTime
HandleTouchStart(z, touches, currentTime) ==
  IF Len(touches) = 2 THEN StartZoomGestureFromTouches(z, touches[1], touches[2])
  ELSE IF Len(touches) = 1 THEN
    LET touch == touches[1]
        timeSinceLastTap == currentTime - z.lastTapTime
    IN
    IF timeSinceLastTap >= DOUBLE_TAP_DELAY THEN StoreTapAndStartDrag(z, currentTime, touch)
    ELSE IF /\ z.lastTapPosition # NoPoint
            /\ GetDistance(touch, z.lastTapPosition) < DOUBLE_TAP_DISTANCE
         THEN [HandleDoubleTapFromTouch(z, touch) EXCEPT !.lastTapTime = 0,
                                                         !.lastTapPosition = NoPoint]
    ELSE StoreTapAndStartDrag(z, currentTime, touch)
  ELSE z

\* #processZoomGesture
ProcessZoomGesture(z, touch1, touch2) ==
  LET mid == <<(touch1[1] + touch2[1]) \div 2, (touch1[2] + touch2[2]) \div 2>>
      currentDistance == GetDistance(touch1, touch2)
      newScale == (currentDistance * z.startScale) \div z.initialDistance
      scaled == [z EXCEPT !.scale = Clamp(newScale, MIN_ZOOM, MAX_ZOOM),
                          !.hasManualZoom = TRUE]
  IN [RequestUpdateTransform(ZoomAround(scaled, mid, z.scale)) EXCEPT !.isDragging = FALSE]

\* #processDragGesture
ProcessDragGesture(z, touch) ==
  LET distance == GetDistance(touch, z.startPosition)
      dx == touch[1] - z.startPosition[1]
      dy == touch[2] - z.startPosition[2]
  IN
  IF ~z.hasDraggedBeyondThreshold /\ distance < DRAG_THRESHOLD THEN z
  ELSE RequestUpdateTransform(
         [z EXCEPT !.hasDraggedBeyondThreshold = TRUE,
                   !.translate = [x |-> z.startTranslate.x + (dx * ScaleUnit * 100) \div z.scale,
                                  y |-> z.startTranslate.y + (dy * ScaleUnit * 100) \div z.scale]])

\* #handleTouchMove with event.touches = touches
HandleTouchMove(z, touches) ==
  IF Len(touches) = 2 THEN ProcessZoomGesture(z, touches[1], touches[2])
  ELSE IF Len(touches) = 1 /\ z.isDragging THEN ProcessDragGesture(z, touches[1])
  ELSE z

\* #handleTouchEnd with event.touches.length = remaining
HandleTouchEnd(z, remaining) ==
  IF remaining = 0
  THEN [RequestUpdateTransform([z EXCEPT !.isDragging = FALSE])
          EXCEPT !.hasDraggedBeyondThreshold = FALSE]
  ELSE z

\* The touch listeners are on the element: added once, with the signal of
\* #controller, and gone when it aborts.
Listening == initialized /\ ~aborted

ZoomEnvironmentUnchanged ==
  UNCHANGED <<zoomConnected, aborted, resizeObserving, closeOverrides, hasImage,
              naturalSize, now>>

\* A handled touch event ends what the last close() left.
TouchHandled ==
  /\ touchEvents < MaxTouchEvents
  /\ touchEvents' = touchEvents + 1
  /\ lastClose' = NoClose

\* connectedCallback; isMobileBreakpoint() answers `mobile`
ZoomConnect(mobile) ==
  LET z == IF hasImage /\ mobile
           THEN UpdateTransform(InitEventListeners(ZoomState)) ELSE ZoomState
  IN
  /\ ~zoomConnected
  /\ closeOverrides < MaxZoomConnects
  /\ zoomConnected' = TRUE
  /\ resizeObserving' = (hasImage \/ resizeObserving)
  /\ closeOverrides' = IF hasImage THEN closeOverrides + 1 ELSE closeOverrides
  /\ ZoomAssign(z)
  /\ UNCHANGED <<aborted, hasImage, naturalSize, now, fingersDown, touchEvents, lastClose>>
  /\ UNCHANGED <<discVars, vpVars, qaVars, plVars, lifeVars, hdVars, giftVars>>

\* disconnectedCallback
ZoomDisconnect ==
  /\ zoomConnected
  /\ zoomConnected' = FALSE
  /\ aborted' = TRUE
  /\ resizeObserving' = FALSE
  /\ ZoomAssign([ZoomState EXCEPT !.animationFrame = FALSE])
  /\ UNCHANGED <<closeOverrides, hasImage, naturalSize, now, fingersDown, touchEvents,
                 lastClose>>
  /\ UNCHANGED <<discVars, vpVars, qaVars, plVars, lifeVars, hdVars, giftVars>>

\* #handleResize, called by the ResizeObserver for a wrapper of size `size`
HandleResize(size, mobile) ==
  LET resized == [ZoomState EXCEPT !.container = size]
      ready == IF ~resized.initialized /\ mobile THEN InitEventListeners(resized)
               ELSE resized
      z == IF ready.initialized THEN RequestUpdateTransform(ready) ELSE ready
  IN
  /\ resizeObserving
  /\ z # ZoomState
  /\ ZoomAssign(z)
  /\ ZoomEnvironmentUnchanged
  /\ UNCHANGED <<fingersDown, touchEvents, lastClose>>
  /\ UNCHANGED <<discVars, vpVars, qaVars, plVars, lifeVars, hdVars, giftVars>>

\* touchstart: a finger goes down on the laid-out wrapper
TouchStart(touches) ==
  /\ Listening
  /\ container[1] > 0
  /\ fingersDown < Len(touches)
  /\ fingersDown' = Len(touches)
  /\ TouchHandled
  /\ ZoomAssign(HandleTouchStart(ZoomState, touches, now))
  /\ ZoomEnvironmentUnchanged
  /\ UNCHANGED <<discVars, vpVars, qaVars, plVars, lifeVars, hdVars, giftVars>>

\* touchmove: the fingers that are down move
TouchMove(touches) ==
  /\ Listening
  /\ fingersDown = Len(touches)
  /\ TouchHandled
  /\ ZoomAssign(HandleTouchMove(ZoomState, touches))
  /\ UNCHANGED fingersDown
  /\ ZoomEnvironmentUnchanged
  /\ UNCHANGED <<discVars, vpVars, qaVars, plVars, lifeVars, hdVars, giftVars>>

\* touchend: a finger is lifted
TouchEnd ==
  /\ Listening
  /\ fingersDown > 0
  /\ fingersDown' = fingersDown - 1
  /\ TouchHandled
  /\ ZoomAssign(HandleTouchEnd(ZoomState, fingersDown - 1))
  /\ ZoomEnvironmentUnchanged
  /\ UNCHANGED <<discVars, vpVars, qaVars, plVars, lifeVars, hdVars, giftVars>>

\* The requested animation frame: #updateTransform
AnimationFrame ==
  /\ animationFrame
  /\ ZoomAssign(UpdateTransform(ZoomState))
  /\ lastClose' = IF lastClose.fresh THEN [lastClose EXCEPT !.frames = 1] ELSE lastClose
  /\ ZoomEnvironmentUnchanged
  /\ UNCHANGED <<fingersDown, touchEvents>>
  /\ UNCHANGED <<discVars, vpVars, qaVars, plVars, lifeVars, hdVars, giftVars>>

\* The #resetZoom calls of the wrappers around close, outermost first.
RECURSIVE ResetZooms(_, _)
ResetZooms(z, overrides) ==
  IF overrides = 0 THEN z ELSE ResetZooms(ResetZoom(z), overrides - 1)

\* zoomDialog.close(): the overrides of #setupDialogCloseListener, then the
\* dialog's own close, which finds the wrapper as `seen`.
CloseZoomDialog ==
  LET z == ResetZooms(ZoomState, closeOverrides) IN
  /\ ZoomAssign(z)
  /\ lastClose' = [fresh |-> TRUE, before |-> Dirty(Snapshot(ZoomState)),
                   seen |-> Snapshot(z), frames |-> 0]
  /\ lastClose' # lastClose \/ z # ZoomState
  /\ UNCHANGED <<zoomConnected, aborted, resizeObserving, closeOverrides, hasImage,
                 naturalSize, now, fingersDown, touchEvents>>
  /\ UNCHANGED <<discVars, vpVars, qaVars, plVars, lifeVars, hdVars, giftVars>>

\* Time passes: performance.now() reads one of Times.
Tick ==
  /\ now + TimeStep \in Times
  /\ now' = now + TimeStep
  /\ UNCHANGED <<scale, initialDistance, startScale, translate, startPosition,
                 startTranslate, isDragging, initialized, animationFrame, lastTapTime,
                 lastTapPosition, hasDraggedBeyondThreshold, hasManualZoom, style,
                 zoomConnected, aborted, resizeObserving, closeOverrides, hasImage,
                 naturalSize, container, fingersDown, touchEvents, lastClose>>
  /\ UNCHANGED <<discVars, vpVars, qaVars, plVars, lifeVars, hdVars, giftVars>>

NextZoom ==
  \/ \E mobile \in BOOLEAN : ZoomConnect(mobile)
  \/ ZoomDisconnect
  \/ \E size \in Containers, mobile \in BOOLEAN : HandleResize(size, mobile)
  \/ \E point \in TouchPoints : TouchStart(<<point>>)
  \/ \E pair \in TouchPairs : TouchStart(pair)
  \/ \E point \in TouchPoints : TouchMove(<<point>>)
  \/ \E pair \in TouchPairs : TouchMove(pair)
  \/ TouchEnd
  \/ AnimationFrame
  \/ CloseZoomDialog
  \/ Tick

(***************************************************************************)
(* HeaderDrawer                                                            *)
(*                                                                         *)
(* The drawer holds the main menu's details element, a submenu inside it   *)
(* and a submenu inside that one.  onAnimationEnd and the focus trap are   *)
(* imported from modules outside this repository's sources: the callback   *)
(* of onAnimationEnd runs in a later step, when the animations of the      *)
(* element have ended.                                                     *)
(***************************************************************************)
DetailsElements == {"main", "sub", "subsub"}
MainDetails == "main"
NoDetails == "none"
Keys == {"Escape", "Enter"}

\* The details element around a details element (NoDetails for refs.details).
ParentDetails(d) ==
  CASE d = "subsub" -> "sub"
    [] d = "sub" -> "main"
    [] OTHER -> NoDetails

DrawerInit ==
  /\ hdConnected = FALSE
  /\ hdOpen = [d \in DetailsElements |-> FALSE]
  /\ hdMenuOpen = [d \in DetailsElements |-> FALSE]
  /\ hdAriaExpanded = [d \in DetailsElements |-> "unset"]
  /\ hdFrames = {}
  /\ hdClosing = {}
  /\ hdTrapTimeouts = {}
  /\ hdTrapFocus = NoDetails
  /\ hdEscaped = NoDetails

DrawerRest == DrawerInit

\* An element with `d` as its closest details can be the target of an event:
\* the summary of d is shown when the details around d is open.
CanTarget(d) ==
  IF d = NoDetails \/ d = MainDetails THEN TRUE ELSE hdOpen[ParentDetails(d)]

\* #getDetailsElement(event), for an event whose target has `closest` as its
\* closest details element
GetDetailsElement(closest) == IF closest = NoDetails THEN MainDetails ELSE closest

\* reset(element), applied to the elements of `elements`
ResetAll(elements) ==
  /\ hdMenuOpen' = [d \in DetailsElements |-> IF d \in elements THEN FALSE ELSE hdMenuOpen[d]]
  /\ hdOpen' = [d \in DetailsElements |-> IF d \in elements THEN FALSE ELSE hdOpen[d]]
  /\ hdAriaExpanded' = [d \in DetailsElements |->
                          IF d \in elements THEN "false" ELSE hdAriaExpanded[d]]

\* #close(details), up to onAnimationEnd
CloseDetails(details) ==
  /\ hdAriaExpanded' = [hdAriaExpanded EXCEPT ![details] = "false"]
  /\ hdMenuOpen' = [hdMenuOpen EXCEPT ![details] = FALSE]
  /\ hdClosing' = hdClosing \cup {details}
  /\ UNCHANGED <<hdConnected, hdOpen, hdFrames, hdTrapTimeouts, hdTrapFocus>>

\* connectedCallback
DrawerConnect ==
  /\ ~hdConnected
  /\ hdConnected' = TRUE
  /\ UNCHANGED <<hdOpen, hdMenuOpen, hdAriaExpanded, hdFrames, hdClosing, hdTrapTimeouts,
                 hdTrapFocus, hdEscaped>>
  /\ UNCHANGED <<discVars, vpVars, qaVars, plVars, zoomVars, lifeVars, giftVars>>

\* disconnectedCallback
DrawerDisconnect ==
  /\ hdConnected
  /\ hdConnected' = FALSE
  /\ UNCHANGED <<hdOpen, hdMenuOpen, hdAriaExpanded, hdFrames, hdClosing, hdTrapTimeouts,
                 hdTrapFocus, hdEscaped>>
  /\ UNCHANGED <<discVars, vpVars, qaVars, plVars, zoomVars, lifeVars, giftVars>>

\* A click on the summary of a closed details element: the browser sets its
\* open attribute, and open(event) runs up to requestAnimationFrame.
DrawerOpen(d) ==
  /\ CanTarget(d)
  /\ ~hdOpen[d]
  /\ hdOpen' = [hdOpen EXCEPT ![d] = TRUE]
  /\ hdAriaExpanded' = [hdAriaExpanded EXCEPT ![GetDetailsElement(d)] = "true"]
  /\ hdFrames' = hdFrames \cup {GetDetailsElement(d)}
  /\ hdEscaped' = NoDetails
  /\ UNCHANGED <<hdConnected, hdMenuOpen, hdClosing, hdTrapTimeouts, hdTrapFocus>>
  /\ UNCHANGED <<discVars, vpVars, qaVars, plVars, zoomVars, lifeVars, giftVars>>

\* The animation frame of open(event)
DrawerOpenFrame(d) ==
  /\ d \in hdFrames
  /\ hdFrames' = hdFrames \ {d}
  /\ hdMenuOpen' = [hdMenuOpen EXCEPT ![d] = TRUE]
  /\ hdTrapTimeouts' = hdTrapTimeouts \cup {d}
  /\ hdEscaped' = NoDetails
  /\ UNCHANGED <<hdConnected, hdOpen, hdAriaExpanded, hdClosing, hdTrapFocus>>
  /\ UNCHANGED <<discVars, vpVars, qaVars, plVars, zoomVars, lifeVars, giftVars>>

\* A setTimeout(() => trapFocus(details), 0) of open or of #close
DrawerTrapFocus(d) ==
  /\ d \in hdTrapTimeouts
  /\ hdTrapTimeouts' = hdTrapTimeouts \ {d}
  /\ hdTrapFocus' = d
  /\ UNCHANGED <<hdConnected, hdOpen, hdMenuOpen, hdAriaExpanded, hdFrames, hdClosing,
                 hdEscaped>>
  /\ UNCHANGED <<discVars, vpVars, qaVars, plVars, zoomVars, lifeVars, giftVars>>

\* #onKeyUp, for a keyup of `key` on an element inside the drawer
DrawerKeyUp(key, closest) ==
  /\ hdConnected
  /\ CanTarget(closest)
  /\ IF key # "Escape"
     THEN UNCHANGED hdVars
     ELSE /\ CloseDetails(GetDetailsElement(closest))
          /\ hdEscaped' = GetDetailsElement(closest)
  /\ UNCHANGED <<discVars, vpVars, qaVars, plVars, zoomVars, lifeVars, giftVars>>

\* back(event)
DrawerBack(closest) ==
  /\ CanTarget(closest)
  /\ CloseDetails(GetDetailsElement(closest))
  /\ hdEscaped' = NoDetails
  /\ UNCHANGED <<discVars, vpVars, qaVars, plVars, zoomVars, lifeVars, giftVars>>

\* close()
DrawerClose ==
  /\ CloseDetails(MainDetails)
  /\ hdEscaped' = NoDetails
  /\ UNCHANGED <<discVars, vpVars, qaVars, plVars, zoomVars, lifeVars, giftVars>>

\* The callback #close gave to onAnimationEnd
DrawerAnimationEnd(details) ==
  /\ details \in hdClosing
  /\ hdClosing' = hdClosing \ {details}
  /\ IF details = MainDetails
     THEN /\ ResetAll({details} \cup {d \in DetailsElements : hdOpen[d]})
          /\ hdTrapFocus' = NoDetails
          /\ UNCHANGED hdTrapTimeouts
     ELSE /\ ResetAll({details})
          /\ hdTrapTimeouts' = hdTrapTimeouts \cup {MainDetails}
          /\ UNCHANGED hdTrapFocus
  /\ UNCHANGED <<hdConnected, hdFrames, hdEscaped>>
  /\ UNCHANGED <<discVars, vpVars, qaVars, plVars, zoomVars, lifeVars, giftVars>>

NextDrawer ==
  \/ DrawerConnect
  \/ DrawerDisconnect
  \/ \E d \in DetailsElements : DrawerOpen(d)
  \/ \E d \in DetailsElements : DrawerOpenFrame(d)
  \/ \E d \in DetailsElements : DrawerTrapFocus(d)
  \/ \E key \in Keys, closest \in DetailsElements \cup {NoDetails} : DrawerKeyUp(key, closest)
  \/ \E closest \in DetailsElements \cup {NoDetails} : DrawerBack(closest)
  \/ DrawerClose
  \/ \E d \in DetailsElements : DrawerAnimationEnd(d)

(***************************************************************************)
(* GiftCardRecipientForm                                                   *)
(*                                                                         *)
(* recipientForm is the DOM of the form: the two radio buttons, the        *)
(* recipient fields (disabled and enabled together), the control flag      *)
(* input, the timezone input, the error containers, the character count    *)
(* and the live region.  The optional refs are present.                    *)
(***************************************************************************)
SELF == "self"
RECIPIENT == "recipient_form"
DeliveryMode == {SELF, RECIPIENT}

\* What a caller may pass as mode.
ModeArguments == DeliveryMode \cup {"SELF", ""}

InputFields == {"recipientEmail", "recipientName", "recipientMessage", "recipientSendOn"}
FieldValues == {"", "a"}
NoValues == [field \in InputFields |-> ""]
NoToggle == [mode |-> "none", threw |-> FALSE]

\* #clearErrorMessages
ClearErrorMessages(form) == [form EXCEPT !.errors = {}, !.invalid = {}, !.liveRegion = ""]

\* #updateCharacterCount
UpdateCharacterCount(form) ==
  [form EXCEPT !.characterCount = Len(form.values["recipientMessage"])]

\* #updateButtonStates(mode)
UpdateButtonStates(form, mode) ==
  IF mode = RECIPIENT
  THEN [form EXCEPT !.myEmailButton = FALSE, !.recipientEmailButton = TRUE]
  ELSE [form EXCEPT !.myEmailButton = TRUE, !.recipientEmailButton = FALSE]

\* #clearRecipientFields
ClearRecipientFields(form) ==
  ClearErrorMessages(UpdateCharacterCount([form EXCEPT !.values = NoValues]))

\* #disableRecipientFields
DisableRecipientFields(form) ==
  ClearErrorMessages([form EXCEPT !.disabled = TRUE,
                                  !.required = FALSE,
                                  !.invalid = {},
                                  !.controlFlag = FALSE,
                                  !.timezoneOffset = FALSE])

\* #enableRecipientFields; #setDateConstraints sets the same min and max
\* within one day
EnableRecipientFields(form) ==
  [form EXCEPT !.disabled = FALSE,
               !.required = TRUE,
               !.controlFlag = TRUE,
               !.timezoneOffset = TRUE,
               !.dateConstraints = TRUE]

\* #initializeForm
InitializeForm(form) ==
  LET hidden == [UpdateButtonStates(form, SELF) EXCEPT !.hidden = TRUE]
  IN [DisableRecipientFields(ClearRecipientFields(hidden)) EXCEPT !.dateConstraints = TRUE]

\* The form as the section renders it.
RenderedForm ==
  [myEmailButton |-> TRUE, recipientEmailButton |-> FALSE, hidden |-> TRUE,
   values |-> NoValues, disabled |-> TRUE, required |-> FALSE, invalid |-> {},
   controlFlag |-> FALSE, timezoneOffset |-> FALSE, dateConstraints |-> FALSE,
   errors |-> {}, characterCount |-> 0, liveRegion |-> "", focus |-> "none"]

GiftCardFormInit ==
  /\ currentMode = SELF
  /\ recipientForm = RenderedForm
  /\ recipientEvents = <<>>
  /\ toggleCalls = 0
  /\ lastToggle = NoToggle

GiftCardFormRest == GiftCardFormInit

\* #updateFormState in mode `mode`: the form, and the event it dispatches
UpdateFormState(form, mode) ==
  LET isRecipientMode == mode = RECIPIENT
      shown == [UpdateButtonStates(form, mode) EXCEPT !.hidden = ~isRecipientMode]
  IN
  IF isRecipientMode
  THEN [UpdateCharacterCount(EnableRecipientFields(shown))
          EXCEPT !.liveRegion = "visible", !.focus = "recipientEmail"]
  ELSE [DisableRecipientFields(ClearRecipientFields(shown)) EXCEPT !.liveRegion = "hidden"]

RecipientToggle(mode) == [mode |-> mode, recipientFormVisible |-> mode = RECIPIENT]

\* Mutant: the form is updated also when the mode is the current one.
IsCurrentModeNever(mode) == FALSE

\* this.#currentMode === mode
IsCurrentMode(mode) == currentMode = mode

\* toggleRecipientForm(mode, _event)
ToggleRecipientForm(mode) ==
  /\ gcConnected
  /\ toggleCalls < MaxToggleCalls
  /\ toggleCalls' = toggleCalls + 1
  /\ lastToggle' = [mode |-> mode, threw |-> mode \notin DeliveryMode]
  /\ IF mode \notin DeliveryMode \/ IsCurrentMode(mode)
     THEN UNCHANGED <<currentMode, recipientForm, recipientEvents>>
     ELSE /\ currentMode' = mode
          /\ recipientForm' = UpdateFormState(recipientForm, mode)
          /\ recipientEvents' = Append(recipientEvents, RecipientToggle(mode))
  /\ UNCHANGED <<discVars, vpVars, qaVars, plVars, zoomVars, lifeVars, hdVars>>

\* The customer types `value` into a recipient field; the input listener of
\* recipientMessage is #updateCharacterCount.
RecipientInput(field, value) ==
  LET typed == [recipientForm EXCEPT !.values[field] = value] IN
  /\ ~recipientForm.disabled
  /\ ~recipientForm.hidden
  /\ recipientForm.values[field] # value
  /\ recipientForm' = IF field = "recipientMessage" /\ gcBound
                      THEN UpdateCharacterCount(typed) ELSE typed
  /\ UNCHANGED <<currentMode, recipientEvents, toggleCalls, lastToggle>>
  /\ UNCHANGED <<discVars, vpVars, qaVars, plVars, zoomVars, lifeVars, hdVars>>

\* #displayErrorMessage(title, body), body naming the fields of `fields`
DisplayErrorMessage(form, fields) ==
  [ClearErrorMessages(form) EXCEPT !.errors = fields, !.invalid = fields,
                                   !.liveRegion = "error"]

\* #displayCartError: a cart error event without data, with errors for the
\* fields of `fields`, or with a message only
DisplayCartError(hasData, fields) ==
  /\ gcBound
  /\ recipientForm' = IF hasData THEN DisplayErrorMessage(recipientForm, fields)
                      ELSE recipientForm
  /\ recipientForm' # recipientForm
  /\ UNCHANGED <<currentMode, recipientEvents, toggleCalls, lastToggle>>
  /\ UNCHANGED <<discVars, vpVars, qaVars, plVars, zoomVars, lifeVars, hdVars>>

\* #handleCartAdd
HandleCartAdd ==
  /\ gcBound
  /\ recipientForm' = ClearErrorMessages(recipientForm)
  /\ recipientForm' # recipientForm
  /\ UNCHANGED <<currentMode, recipientEvents, toggleCalls, lastToggle>>
  /\ UNCHANGED <<discVars, vpVars, qaVars, plVars, zoomVars, lifeVars, hdVars>>

(***************************************************************************)
(* Connected and disconnected callbacks, and the listeners they keep on    *)
(* document, window and mediaQueryLarge.  A listener is known by the       *)
(* component that owns the callback, the target and the event type: adding *)
(* the same callback twice leaves one listener.                            *)
(***************************************************************************)
ProductCardListener == <<"product-card", "mediaQueryLarge", "change">>
GiftCardListeners == {<<"gift-card-recipient-form", "document", "cartError">>,
                      <<"gift-card-recipient-form", "document", "cartUpdate">>}
PopoverListener == <<"anchored-popover", "window", "resize">>

\* ProductCard.#handleQuickAdd: the prefetch listeners are on the card when the
\* breakpoint is the desktop one.
HandleQuickAdd(matches) == matches

\* ProductCard.connectedCallback
ProductCardConnect ==
  /\ ~pcConnected
  /\ pcConnected' = TRUE
  /\ pcHover' = HandleQuickAdd(desktop)
  /\ listeners' = listeners \cup {ProductCardListener}
  /\ UNCHANGED <<desktop, gcConnected, gcBound, apConnected, apCloseOnResize,
                 apToggleListener, apOpen>>
  /\ UNCHANGED <<discVars, vpVars, qaVars, plVars, zoomVars, hdVars, giftVars>>

\* ProductCard.disconnectedCallback: the 'click' listener of the card is removed
ProductCardDisconnect ==
  /\ pcConnected
  /\ pcConnected' = FALSE
  /\ UNCHANGED <<listeners, desktop, pcHover, gcConnected, gcBound, apConnected,
                 apCloseOnResize, apToggleListener, apOpen>>
  /\ UNCHANGED <<discVars, vpVars, qaVars, plVars, zoomVars, hdVars, giftVars>>

\* A 'change' of mediaQueryLarge runs the callbacks registered on it:
\* ProductCard.#handleQuickAdd and QuickAddComponent.#closeQuickAddModal.
MediaQueryChange ==
  /\ desktop' = ~desktop
  /\ pcHover' = IF ProductCardListener \in listeners THEN HandleQuickAdd(~desktop)
                ELSE pcHover
  /\ dialogOpen' = IF QuickAddListener \in listeners THEN FALSE ELSE dialogOpen
  /\ UNCHANGED <<listeners, pcConnected, gcConnected, gcBound, apConnected,
                 apCloseOnResize, apToggleListener, apOpen>>
  /\ UNCHANGED <<qaConnected, qaAbortController, qaRequests, qaIssued, qaMicrotasks,
                 cachedContent, modalContent, clicks, cardUrl>>
  /\ UNCHANGED <<discVars, vpVars, plVars, zoomVars, hdVars, giftVars>>

\* GiftCardRecipientForm.connectedCallback
GiftCardConnect ==
  /\ ~gcConnected
  /\ gcConnected' = TRUE
  /\ gcBound' = TRUE
  /\ listeners' = listeners \cup GiftCardListeners
  /\ recipientForm' = InitializeForm(recipientForm)
  /\ UNCHANGED <<currentMode, recipientEvents, toggleCalls, lastToggle>>
  /\ UNCHANGED <<desktop, pcConnected, pcHover, apConnected, apCloseOnResize,
                 apToggleListener, apOpen>>
  /\ UNCHANGED <<discVars, vpVars, qaVars, plVars, zoomVars, hdVars>>

\* GiftCardRecipientForm.disconnectedCallback
GiftCardDisconnect ==
  /\ gcConnected
  /\ gcConnected' = FALSE
  /\ gcBound' = FALSE
  /\ listeners' = IF gcBound THEN listeners \ GiftCardListeners ELSE listeners
  /\ UNCHANGED <<desktop, pcConnected, pcHover, apConnected, apCloseOnResize,
                 apToggleListener, apOpen>>
  /\ UNCHANGED <<discVars, vpVars, qaVars, plVars, zoomVars, hdVars, giftVars>>

\* AnchoredPopoverComponent.connectedCallback
PopoverConnect ==
  /\ ~apConnected
  /\ apConnected' = TRUE
  /\ apToggleListener' = (apToggleListener \/ apCloseOnResize)
  /\ UNCHANGED <<listeners, desktop, pcConnected, pcHover, gcConnected, gcBound,
                 apCloseOnResize, apOpen>>
  /\ UNCHANGED <<discVars, vpVars, qaVars, plVars, zoomVars, hdVars, giftVars>>

\* AnchoredPopoverComponent.disconnectedCallback; the popover of an element
\* that leaves the document is hidden without a 'beforetoggle'.
PopoverDisconnect ==
  /\ apConnected
  /\ apConnected' = FALSE
  /\ apOpen' = FALSE
  /\ listeners' = listeners \ {PopoverListener}
  /\ UNCHANGED <<desktop, pcConnected, pcHover, gcConnected, gcBound, apCloseOnResize,
                 apToggleListener>>
  /\ UNCHANGED <<discVars, vpVars, qaVars, plVars, zoomVars, hdVars, giftVars>>

\* The 'beforetoggle' listener of connectedCallback, for evt.newState
BeforeToggle(registered, newState) ==
  IF ~apToggleListener THEN registered
  ELSE IF newState = "open" THEN registered \cup {PopoverListener}
  ELSE registered \ {PopoverListener}

\* The popover of a connected element is shown or hidden.
PopoverToggle ==
  /\ apConnected
  /\ apOpen' = ~apOpen
  /\ listeners' = BeforeToggle(listeners, IF apOpen THEN "closed" ELSE "open")
  /\ UNCHANGED <<desktop, pcConnected, pcHover, gcConnected, gcBound, apConnected,
                 apCloseOnResize, apToggleListener>>
  /\ UNCHANGED <<discVars, vpVars, qaVars, plVars, zoomVars, hdVars, giftVars>>

\* A 'resize' of the window: #resizeListener hides the open popover.
WindowResize ==
  /\ PopoverListener \in listeners
  /\ apOpen
  /\ apOpen' = FALSE
  /\ listeners' = BeforeToggle(listeners, "closed")
  /\ UNCHANGED <<desktop, pcConnected, pcHover, gcConnected, gcBound, apConnected,
                 apCloseOnResize, apToggleListener>>
  /\ UNCHANGED <<discVars, vpVars, qaVars, plVars, zoomVars, hdVars, giftVars>>

NextLifecycle ==
  \/ ProductCardConnect
  \/ ProductCardDisconnect
  \/ MediaQueryChange
  \/ QuickAddConnect
  \/ QuickAddDisconnect
  \/ PaginatedConnect
  \/ PaginatedDisconnect
  \/ GiftCardConnect
  \/ GiftCardDisconnect
  \/ PopoverConnect
  \/ PopoverDisconnect
  \/ PopoverToggle
  \/ WindowResize

(***************************************************************************)
(* DisclosureCustom                                                        *)
(***************************************************************************)
Disclosures == 1..NumDisclosures

AriaValues == {"unset", "true", "false"}

\* The markup decides the initial attributes; the code sets none on connect.
DisclosureInit ==
  /\ ariaExpanded \in [Disclosures -> AriaValues]
  /\ inert \in [Disclosures -> BOOLEAN]
  /\ ariaLabel = [d \in Disclosures |-> "initial"]
  /\ toggleHistory = [d \in Disclosures |-> <<>>]

\* A fixed state, used by the specifications of the other components.
DisclosureRest ==
  /\ ariaExpanded = [d \in Disclosures |-> "unset"]
  /\ inert = [d \in Disclosures |-> FALSE]
  /\ ariaLabel = [d \in Disclosures |-> "initial"]
  /\ toggleHistory = [d \in Disclosures |-> <<>>]

\* trigger.matches('[aria-expanded="true"]')
Expanded(d) == ariaExpanded[d] = "true"

\* Mutant: the inert flag follows the new state instead of the old one.
ToggleInertFlipped(expanded) == ~expanded

\* content.inert = expanded
ToggleInert(expanded) == expanded

\* toggleDisclosure
ToggleDisclosure(d) ==
  LET expanded == Expanded(d) IN
  /\ ariaExpanded' = [ariaExpanded EXCEPT ![d] = BoolToString(~expanded)]
  /\ ariaLabel' = [ariaLabel EXCEPT ![d] = IF expanded THEN "open" ELSE "close"]
  /\ inert' = [inert EXCEPT ![d] = ToggleInert(expanded)]
  /\ toggleHistory' = [toggleHistory EXCEPT ![d] = Take(<<ariaExpanded[d]>> \o @, 2)]
  /\ UNCHANGED <<vpVars, qaVars, plVars, zoomVars, lifeVars, hdVars, giftVars>>

NextDisclosure == \E d \in Disclosures : ToggleDisclosure(d)

(***************************************************************************)
(* Specifications: one per component, the other components at rest.        *)
(***************************************************************************)
InitDisclosure == DisclosureInit /\ VariantRest /\ QuickAddRest /\ PaginatedRest /\ ZoomRest /\ LifecycleRest /\ DrawerRest /\ GiftCardFormRest

SpecDisclosure == InitDisclosure /\ [][NextDisclosure]_vars

InitVariant == VariantInit /\ DisclosureRest /\ QuickAddRest /\ PaginatedRest /\ ZoomRest /\ LifecycleRest /\ DrawerRest /\ GiftCardFormRest

SpecVariant == InitVariant /\ [][NextVariant]_vars

InitQuickAdd ==
  QuickAddInit /\ DisclosureRest /\ VariantRest /\ PaginatedRest /\ ZoomRest /\ LifecycleRest /\ DrawerRest /\ GiftCardFormRest

SpecQuickAdd == InitQuickAdd /\ [][NextQuickAdd]_vars

InitPaginated ==
  PaginatedInit /\ DisclosureRest /\ VariantRest /\ QuickAddRest /\ ZoomRest /\ LifecycleRest /\ DrawerRest /\ GiftCardFormRest

SpecPaginated == InitPaginated /\ [][NextPaginated]_vars

\* Every request of getSectionHTML settles, and the browser runs the idle
\* callbacks it was given.
SpecPaginatedFair ==
  /\ SpecPaginated
  /\ WF_vars(\E f \in 1..MaxSectionFetches : FetchCompletes(f) \/ FetchFails(f))
  /\ WF_vars(\E type \in Directions : IdlePrefetch(type))

InitZoom ==
  ZoomInit /\ DisclosureRest /\ VariantRest /\ QuickAddRest /\ PaginatedRest /\ LifecycleRest /\ DrawerRest /\ GiftCardFormRest

SpecZoom == InitZoom /\ [][NextZoom]_vars

InitLifecycle ==
  LifecycleInit /\ DisclosureRest /\ VariantRest /\ QuickAddRest /\ PaginatedRest /\ ZoomRest /\ DrawerRest /\ GiftCardFormRest

SpecLifecycle == InitLifecycle /\ [][NextLifecycle]_vars

NextGiftCard ==
  \/ GiftCardConnect
  \/ GiftCardDisconnect
  \/ \E mode \in ModeArguments : ToggleRecipientForm(mode)
  \/ \E field \in InputFields, value \in FieldValues : RecipientInput(field, value)
  \/ \E hasData \in BOOLEAN, fields \in {{}, {"recipientEmail"}} :
       DisplayCartError(hasData, fields)
  \/ HandleCartAdd

InitDrawer ==
  /\ DrawerInit /\ DisclosureRest /\ VariantRest /\ QuickAddRest /\ PaginatedRest
  /\ ZoomRest /\ LifecycleRest /\ GiftCardFormRest

SpecDrawer == InitDrawer /\ [][NextDrawer]_vars

InitGiftCard ==
  /\ GiftCardFormInit /\ DisclosureRest /\ VariantRest /\ QuickAddRest /\ PaginatedRest
  /\ ZoomRest /\ LifecycleRest /\ DrawerRest

SpecGiftCard == InitGiftCard /\ [][NextGiftCard]_vars

(***************************************************************************)
(* Claims                                                                  *)
(***************************************************************************)
PendingRequests == {r \in RequestIds : vpRequests[r].status = "pending"}

AppliedRequests == {a[1] : a \in vpApplied}

\* C1: a VariantPicker has at most one fetch outstanding that was not aborted;
\* a response is applied (morph, VariantUpdateEvent) only for the request issued
\* last, and never for a request that was aborted.
C1_OnlyLatestRequestApplies ==
  /\ Cardinality(PendingRequests) <= 1
  /\ \A a \in vpApplied : a[1] = a[2]
  /\ vpEvents \subseteq AppliedRequests
  /\ \A r \in RequestIds :
       vpRequests[r].status = "aborted" => r \notin AppliedRequests /\ r \notin vpEvents

C1_Witness ==
  \E r1, r2 \in RequestIds :
    /\ r1 < r2
    /\ vpRequests[r1].status = "aborted"
    /\ vpRequests[r2].status = "applied"
    /\ r2 \in vpEvents

\* C2: a QuickAddComponent has at most one product-page fetch outstanding that
\* was not aborted.
C2_AtMostOneLiveFetch ==
  Cardinality({r \in FetchIds : qaRequests[r].status = "pending"}) <= 1

\* C9: a fetchProductPage call whose fetch was aborted gives null and does not
\* reject; one whose fetch failed (network error, non-OK status) rejects, and no
\* further fetch is issued for the handleClick that awaited it.  A handleClick
\* whose fetch was aborted or failed adds nothing to the cache, and after a
\* failure it does not open the dialog.
C9_AbortIsNullFailureRejects ==
  /\ \A r \in FetchIds :
       /\ qaRequests[r].fetchEnd = "abort" => qaRequests[r].status = "null"
       /\ qaRequests[r].fetchEnd \in {"http", "network"} => qaRequests[r].status = "rejected"
  /\ \A c \in Clicks :
       /\ Cardinality({r \in FetchIds : qaRequests[r].caller = c}) <= 1
       /\ clicks[c].fetchEnd = "abort" => clicks[c].result = "null" /\ ~clicks[c].stored
       /\ clicks[c].fetchEnd \in {"http", "network"} =>
            /\ clicks[c].result = "rejected"
            /\ clicks[c].pc = "threw"
            /\ ~clicks[c].stored
            /\ ~clicks[c].opened
  /\ \A u \in Urls :
       cachedContent[u] # "none" =>
         \E c \in Clicks : clicks[c].stored /\ clicks[c].url = u /\ clicks[c].fetchEnd = "ok"

C9_Witness ==
  \E c1, c2 \in Clicks :
    /\ clicks[c1].fetchEnd = "abort" /\ clicks[c1].pc = "done"
    /\ clicks[c2].fetchEnd = "http" /\ clicks[c2].pc = "threw"
    /\ \A u \in Urls : cachedContent[u] = "none"

\* C6: for every option group whose index list is tracked, once an input of the
\* group was selected the list has at most two entries, the first the index
\* selected last in that group and the second, if present, the index selected in
\* that group just before.
C6_ListHoldsLastTwoOfGroup ==
  \A f \in Fieldsets :
    (Has(checkedIndices, f) /\ selections[f] # <<>>) =>
      LET list == checkedIndices[f + 1] IN
      /\ Len(list) <= 2
      /\ Len(list) >= 1
      /\ list[1] = selections[f][1]
      /\ Len(list) = 2 => (Len(selections[f]) = 2 /\ list[2] = selections[f][2])

\* C8 as stated: two toggles in a row return aria-expanded to the value it had,
\* whatever that was, and after a toggle inert is true exactly when
\* aria-expanded is 'false'.
C8_TwoTogglesRestoreAny ==
  \A d \in Disclosures :
    /\ Len(toggleHistory[d]) = 2 => ariaExpanded[d] = toggleHistory[d][2]
    /\ Len(toggleHistory[d]) >= 1 => (inert[d] <=> ariaExpanded[d] = "false")

\* C8 amended: two toggles in a row return aria-expanded to its value when that
\* value was 'true' or 'false'; an attribute that was not set reads as collapsed
\* and is 'false' after two toggles.  After every toggle inert is true exactly
\* when aria-expanded is 'false'.
C8_TwoTogglesRestoreSet ==
  \A d \in Disclosures :
    /\ Len(toggleHistory[d]) = 2 =>
         ariaExpanded[d] = (IF toggleHistory[d][2] = "unset" THEN "false"
                            ELSE toggleHistory[d][2])
    /\ Len(toggleHistory[d]) >= 1 => (inert[d] <=> ariaExpanded[d] = "false")

C8_Witness ==
  \E d, e \in Disclosures :
    /\ Len(toggleHistory[d]) = 2 /\ toggleHistory[d][2] = "true"
    /\ ariaExpanded[d] = "true" /\ ~inert[d]
    /\ Len(toggleHistory[e]) = 2 /\ toggleHistory[e][2] = "unset"
    /\ ariaExpanded[e] = "false" /\ inert[e]

\* The fetches a step adds to the unsettled ones of a list that loses none.
IssuedByStep == SubSeq(plFetches', Len(plFetches) + 1, Len(plFetches'))

\* C3, as stated: at most one section-HTML fetch of a PaginatedList is
\* outstanding at any time.
C3_AtMostOneOutstanding == Len(plFetches) <= 1

\* C3, amended: connectedCallback cancels no outstanding fetch and issues at
\* most one fetch per direction, the two for different pages, so that two
\* fetches of one PaginatedList can be outstanding together.
C3_ConnectIssuesOnePerDirection ==
  [][(~plConnected /\ plConnected') =>
       /\ Len(plFetches') >= Len(plFetches)
       /\ SubSeq(plFetches', 1, Len(plFetches)) = plFetches
       /\ Len(IssuedByStep) <= 2
       /\ \A i, j \in DOMAIN IssuedByStep :
            i # j => /\ IssuedByStep[i].type # IssuedByStep[j].type
                     /\ IssuedByStep[i].page # IssuedByStep[j].page]_vars

\* connectedCallback has left a next-page and a previous-page fetch outstanding.
C3_Witness ==
  /\ plConnected
  /\ Len(plFetches) = 2
  /\ plFetches[1].type = "next" /\ plFetches[2].type = "previous"
  /\ plFetches[1].page = plFetches[2].page + 2

\* C4: once a FilterUpdate was handled, the pages map holds no HTML whose fetch
\* was issued before it.
C4_NoPageFromBeforeFilterUpdate ==
  \A p \in PageNumbers : pages[p] # -1 => pages[p] = filterEpoch

\* C5: the pages map holds entries only while the element is connected.
C5_PagesOnlyWhileConnected ==
  ~plConnected => \A p \in PageNumbers : pages[p] = -1

\* C7: after zoomDialog.close(), and until the next touch event, the scale is
\* DEFAULT_ZOOM, the translation is (0,0), dragging is false and the last tap
\* is cleared, also when an animation frame requested before the close runs
\* after it; and the dialog's own close was called, on the wrapper so reset.
C7_CloseResetsZoom ==
  lastClose.fresh =>
    /\ Snapshot(ZoomState) = ResetSnapshot
    /\ lastClose.seen = ResetSnapshot

\* A pinch after a tap left another scale, another translation and a stored
\* tap; close() was called, and the frame the pinch requested ran after it on
\* the laid-out wrapper.
C7_Witness ==
  /\ lastClose.fresh
  /\ {1, 2, 4, 5} \subseteq lastClose.before
  /\ lastClose.frames = 1
  /\ hasImage /\ container[1] > 0

\* The component that owns a listener is connected.
OwnerConnected(owner) ==
  CASE owner = "product-card" -> pcConnected
    [] owner = "quick-add" -> qaConnected
    [] owner = "paginated-list" -> plConnected
    [] owner = "gift-card-recipient-form" -> gcConnected
    [] owner = "anchored-popover" -> apConnected

\* C10: no listener of a component is registered on document, window or
\* mediaQueryLarge after its disconnectedCallback has run.
C10_NoListenerOfDisconnected == \A l \in listeners : OwnerConnected(l[1])

\* C11: an Escape keyup on an element inside the drawer closes the main menu
\* drawer: the summary of refs.details has aria-expanded 'false', the
\* details has lost menu-open and, once its close animation has ended, open;
\* also when the key event comes from inside an open nested submenu.
C11_EscapeClosesMainDrawer ==
  hdEscaped # NoDetails =>
    /\ hdAriaExpanded[MainDetails] = "false"
    /\ ~hdMenuOpen[MainDetails]
    /\ MainDetails \notin hdClosing => ~hdOpen[MainDetails]

\* C12: toggleRecipientForm throws for a mode other than 'self' and
\* 'recipient_form' and then leaves the mode, the form and the events as
\* they were; a call with the current mode changes nothing and dispatches
\* nothing; a call with the other valid mode dispatches exactly one
\* 'recipient:toggle' that carries the new mode.
C12_ToggleRecipientForm ==
  [][toggleCalls' # toggleCalls =>
       LET mode == lastToggle'.mode IN
       /\ lastToggle'.threw = (mode \notin DeliveryMode)
       /\ mode \notin DeliveryMode \/ mode = currentMode =>
            UNCHANGED <<currentMode, recipientForm, recipientEvents>>
       /\ mode \in DeliveryMode /\ mode # currentMode =>
            /\ currentMode' = mode
            /\ Len(recipientEvents') = Len(recipientEvents) + 1
            /\ SubSeq(recipientEvents', 1, Len(recipientEvents)) = recipientEvents
            /\ recipientEvents'[Len(recipientEvents')].mode = mode]_vars

\* Both valid modes have been switched to, one event each, and the last
\* call then named the current mode.
C12_Witness ==
  /\ toggleCalls > 2
  /\ Len(recipientEvents) = 2
  /\ lastToggle.mode = currentMode
  /\ currentMode = SELF
  /\ recipientEvents[1].mode = RECIPIENT

\* C13: every #renderNextPage / #renderPreviousPage call that starts waiting
\* for a page fetch eventually resumes.
C13_WaitingRenderResumes ==
  \A rid \in 1..MaxRenders :
    (Len(renders) >= rid /\ renders[rid].pc = "waiting")
      ~> (Len(renders) >= rid /\ renders[rid].pc # "waiting")

\* C14: a fetch completion resumes a render waiting for page N only when the
\* completed fetch is one of page N.
C14_ResumedByFetchOfItsPage ==
  [][\A rid \in 1..Len(renders) :
       (/\ renders[rid].pc = "waiting"
        /\ renders'[rid].pc # "waiting"
        /\ Len(plFetches') < Len(plFetches))
       => \E f \in 1..Len(plFetches) :
            /\ plFetches' = Without(plFetches, f)
            /\ plFetches[f].page = renders[rid].page]_vars

\* C15: while no filter update has happened, the pages of the cards in the
\* grid are consecutive and ascending, so no page is in the grid twice.
C15_GridIsContiguous ==
  filterEpoch = 0 => \A i \in 1..(Len(grid) - 1) : grid[i + 1] = grid[i] + 1

\* Renders of both directions have added pages, one of them after waiting
\* for its fetch.
C15_Witness ==
  /\ filterEpoch = 0
  /\ Len(grid) = MaxPage
  /\ \E rid \in 1..Len(renders) : renders[rid].pc = "rendered"
  /\ idleCallbacks["previous"] + idleCallbacks["next"] > 0

\* The pages data-last-page allows (none when it is absent).
UsablePages(last) == {p \in PageNumbers : p <= last}

\* C16: a fetch is issued, and a render decides to wait for or to add a
\* page, only for a page from 1 to the data-last-page it reads then; a page
\* is cached by a fetch issued so, and added by a render that decided so.
C16_OnlyPagesUpToLastPage ==
  [][/\ \A f \in (Len(plFetches) + 1)..Len(plFetches') :
          plFetches'[f].page \in UsablePages(lastPage')
     /\ \A rid \in (Len(renders) + 1)..Len(renders') :
          renders'[rid].page \in UsablePages(lastPage')
     /\ \A p \in PageNumbers :
          pages'[p] # pages[p] /\ pages'[p] # -1 =>
            \E f \in 1..Len(plFetches) : plFetches[f].page = p
     /\ (Len(grid') > Len(grid) /\ domPending' = domPending) =>
          \A i \in 1..Len(grid') :
            \/ grid'[i] \in UsablePages(lastPage)
            \/ \E j \in 1..Len(grid) : grid[j] = grid'[i]
            \/ \E rid \in 1..Len(renders) :
                 /\ renders[rid].pc = "waiting"
                 /\ renders'[rid].pc = "rendered"
                 /\ renders[rid].page = grid'[i]]_vars

\* The grid holds every page from 1 to data-last-page, the idle callbacks
\* of the renders have run, and nothing is being fetched.
C16_Witness ==
  /\ plConnected
  /\ lastPage >= 2
  /\ Len(grid) = lastPage
  /\ grid[1] = 1
  /\ idleCallbacks = [d \in Directions |-> 0]
  /\ plFetches = <<>>

\* C17: when handleClick opens the dialog for a product URL, and it did not
\* find that the product page has no grid, it has morphed the grid of
\* that URL into the modal content.
C17_OpensWithContentOfClickedUrl ==
  [][\A c \in Clicks :
       (/\ ~clicks[c].opened
        /\ clicks'[c].opened
        /\ clicks'[c].url # ""
        /\ clicks'[c].fetchEnd # "ok")
       => /\ clicks'[c].shown # "none"
          /\ modalContent' = clicks'[c].shown]_vars

\* A click on a URL that has a cache entry, and the clicks before it that
\* showed the grid of the same URL.
ClickOfCachedUrl(c) ==
  /\ clicks[c].pc = "idle"
  /\ clicks'[c].pc # "idle"
  /\ cardUrl # ""
  /\ cachedContent[cardUrl] # "none"

EarlierClicks(c) == {b \in Clicks : clicks[b].url = cardUrl /\ clicks[b].shown # "none"}

C19_TargetIsCurrent ==
  Len(checkedIndices) = NumFieldsets =>
    \A f \in Fieldsets :
      selections[f] # <<>> =>
        LET target == selections[f][1]
            before == IF Len(selections[f]) = 2 THEN selections[f][2] ELSE target
        IN
        /\ checked[f] = target
        /\ currentChecked[f][target] = "true"
        /\ before # target =>
             /\ currentChecked[f][before] = "false"
             /\ previousChecked[f][before] = "true"
        /\ \A k \in Inputs \ {before} : previousChecked[f][k] # "true"

====
